---- MODULE Spec2Model ----
(***************************************************************************)
(* Access-policy enforcement of zenstack: the policy compiler              *)
(* (analyzePolicies / PolicyGuardGenerator) and the runtime engine          *)
(* (PolicyUtil.readWithCheck / processWrite) over a small todo schema.      *)
(***************************************************************************)
EXTENDS Integers, Sequences, FiniteSets, TLC

VARIABLES
    store,      \* the rows of the database
    profile,    \* the declared rules of every model (fixed per behaviour)
    call,       \* the one in-flight PolicyUtil call and its ledger
    st          \* the policy compiler's run: rules in, static policy out

vars == <<store, profile, call, st>>

(***************************************************************************)
(* Bounds                                                                  *)
(***************************************************************************)
NTodos == 2
MaxBatch == 2
MaxRules == 2
MaxOther == 1
MaxDepth == 3
MaxOps == 3
MaxConds == 3

(***************************************************************************)
(* Generic helpers                                                         *)
(***************************************************************************)
Range(s) == {s[i] : i \in DOMAIN s}

RECURSIVE SelectSeqBy(_, _)
SeqOfSet(S) == SelectSeqBy(S, <<>>)
SelectSeqBy(S, acc) ==
    IF S = {} THEN acc
    ELSE LET x == CHOOSE y \in S : \A z \in S : y.id <= z.id
         IN SelectSeqBy(S \ {x}, Append(acc, x))

(***************************************************************************)
(* Rule expressions (the ZModel AST of a policy rule's condition)          *)
(***************************************************************************)
Lit(b) == [t |-> "lit", b |-> b]
\* field comparison  v == val ; with fut, future().v == val
Cmp(fut, val) == [t |-> "cmp", fut |-> fut, val |-> val]
AndE(l, r) == [t |-> "and", l |-> l, r |-> r]
OrE(l, r) == [t |-> "or", l |-> l, r |-> r]
NotE(e) == [t |-> "not", e |-> e]

Rule(kind, ops, expr) == [kind |-> kind, ops |-> ops, expr |-> expr]

\* getLiteral<boolean>(rule.args[1].value) === true
IsLiteralTrue(rule) == rule.expr.t = "lit" /\ rule.expr.b

(***************************************************************************)
(* ast-utils: analyzePolicies / toStaticPolicy / forOperation              *)
(***************************************************************************)
\* a mutant of forOperation: 'all' is not recognised
forOperation_noAll(operation, rules) ==
    SelectSeq(rules, LAMBDA rule : operation \in Range(rule.ops))

\* ops is the rule's operation string split at ','; <<>> is a missing literal
forOperation(operation, rules) ==
    SelectSeq(rules, LAMBDA rule :
        IF rule.ops = <<>> THEN FALSE
        ELSE IF rule.ops = <<"all">> THEN TRUE
        ELSE operation \in Range(rule.ops))

\* a mutant of toStaticPolicy: the constant-true deny is not looked at
toStaticPolicy_noDeny(operation, allows, denies) ==
    LET filteredDenies == forOperation(operation, denies)
        filteredAllows == forOperation(operation, allows)
    IN IF Len(filteredAllows) = 0 THEN "false"
       ELSE IF Len(filteredDenies) = 0
               /\ \E i \in DOMAIN filteredAllows : IsLiteralTrue(filteredAllows[i])
            THEN "true"
       ELSE "undefined"

\* a mutant of toStaticPolicy: a constant-true allow wins over conditional denies
toStaticPolicy_allowWins(operation, allows, denies) ==
    LET filteredDenies == forOperation(operation, denies)
        filteredAllows == forOperation(operation, allows)
    IN IF \E i \in DOMAIN filteredDenies : IsLiteralTrue(filteredDenies[i])
       THEN "false"
       ELSE IF Len(filteredAllows) = 0 THEN "false"
       ELSE IF \E i \in DOMAIN filteredAllows : IsLiteralTrue(filteredAllows[i])
            THEN "true"
       ELSE "undefined"

toStaticPolicy(operation, allows, denies) ==
    LET filteredDenies == forOperation(operation, denies)
        filteredAllows == forOperation(operation, allows)
    IN IF \E i \in DOMAIN filteredDenies : IsLiteralTrue(filteredDenies[i])
       THEN "false"
       ELSE IF Len(filteredAllows) = 0 THEN "false"
       ELSE IF Len(filteredDenies) = 0
               /\ \E i \in DOMAIN filteredAllows : IsLiteralTrue(filteredAllows[i])
            THEN "true"
       ELSE "undefined"

AllowsOf(rules) == SelectSeq(rules, LAMBDA r : r.kind = "allow")
DeniesOf(rules) == SelectSeq(rules, LAMBDA r : r.kind = "deny")

analyzePolicies(rules) ==
    [op \in {"create", "read", "update", "delete"} |->
        toStaticPolicy(op, AllowsOf(rules), DeniesOf(rules))]

(***************************************************************************)
(* PolicyGuardGenerator: the before/after split and the guard table        *)
(***************************************************************************)
NoExpr == [t |-> "none"]

RECURSIVE hasFutureReference(_)
hasFutureReference(expr) ==
    CASE expr.t = "cmp" -> expr.fut
      [] expr.t = "lit" -> FALSE
      [] expr.t = "not" -> hasFutureReference(expr.e)
      [] OTHER -> hasFutureReference(expr.l) \/ hasFutureReference(expr.r)

\* a mutant of visitPolicyExpression: an operator with a missing operand is
\* dropped
RECURSIVE visitPolicyExpression_dropNode(_, _)
visitPolicyExpression_dropNode(expr, postUpdate) ==
    IF expr.t \in {"and", "or"}
    THEN LET left == visitPolicyExpression_dropNode(expr.l, postUpdate)
             right == visitPolicyExpression_dropNode(expr.r, postUpdate)
         IN IF left = NoExpr \/ right = NoExpr THEN NoExpr
            ELSE [t |-> expr.t, l |-> left, r |-> right]
    ELSE IF expr.t = "not"
    THEN LET operand == visitPolicyExpression_dropNode(expr.e, postUpdate)
         IN IF operand = NoExpr THEN NoExpr ELSE NotE(operand)
    ELSE IF postUpdate /\ ~hasFutureReference(expr) THEN NoExpr
    ELSE IF ~postUpdate /\ hasFutureReference(expr) THEN NoExpr
    ELSE expr

\* a mutant of visitPolicyExpression: the before half keeps the leaves that
\* refer to future()
RECURSIVE visitPolicyExpression_keepFuture(_, _)
visitPolicyExpression_keepFuture(expr, postUpdate) ==
    IF expr.t \in {"and", "or"}
    THEN LET left == visitPolicyExpression_keepFuture(expr.l, postUpdate)
             right == visitPolicyExpression_keepFuture(expr.r, postUpdate)
         IN IF left = NoExpr THEN right
            ELSE IF right = NoExpr THEN left
            ELSE [t |-> expr.t, l |-> left, r |-> right]
    ELSE IF expr.t = "not"
    THEN LET operand == visitPolicyExpression_keepFuture(expr.e, postUpdate)
         IN IF operand = NoExpr THEN NoExpr ELSE NotE(operand)
    ELSE IF postUpdate /\ ~hasFutureReference(expr) THEN NoExpr
    ELSE expr

\* the expression given to visitPolicyExpression once it has returned: a
\* reduced node is a copy { ...expr, left, right }, the given tree keeps its
\* operands
Visited(expr, postUpdate) == expr

RECURSIVE visitPolicyExpression(_, _)
visitPolicyExpression(expr, postUpdate) ==
    IF expr.t \in {"and", "or"}
    THEN LET left == visitPolicyExpression(expr.l, postUpdate)
             right == visitPolicyExpression(expr.r, postUpdate)
         IN IF left = NoExpr THEN right
            ELSE IF right = NoExpr THEN left
            ELSE [t |-> expr.t, l |-> left, r |-> right]
    ELSE IF expr.t = "not"
    THEN LET operand == visitPolicyExpression(expr.e, postUpdate)
         IN IF operand = NoExpr THEN NoExpr ELSE NotE(operand)
    ELSE IF postUpdate /\ ~hasFutureReference(expr) THEN NoExpr
    ELSE IF ~postUpdate /\ hasFutureReference(expr) THEN NoExpr
    ELSE expr

RECURSIVE processUpdatePolicies(_, _)
processUpdatePolicies(expressions, postUpdate) ==
    IF expressions = <<>> THEN <<>>
    ELSE LET e == visitPolicyExpression(Head(expressions), postUpdate)
             rest == processUpdatePolicies(Tail(expressions), postUpdate)
         IN IF e = NoExpr THEN rest ELSE <<e>> \o rest

ExprsOf(rs) == [i \in DOMAIN rs |-> rs[i].expr]

\* kind is "allow" or "deny"; operation may be "postUpdate"
getPolicyExpressions(rules, kind, operation) ==
    LET attrs == SelectSeq(rules, LAMBDA r : r.kind = kind)
        checkOperation == IF operation = "postUpdate" THEN "update" ELSE operation
        result == ExprsOf(SelectSeq(attrs, LAMBDA r :
                      r.ops # <<>>
                      /\ (checkOperation \in Range(r.ops) \/ "all" \in Range(r.ops))))
    IN IF operation = "update" THEN processUpdatePolicies(result, FALSE)
       ELSE IF operation = "postUpdate" THEN processUpdatePolicies(result, TRUE)
       ELSE result

ALL_OPERATION_KINDS == {"create", "update", "postUpdate", "read", "delete"}

BoolEntry(b) == [k |-> "bool", b |-> b]
FnEntry(kind, allows, denies) ==
    [k |-> "fn", kind |-> kind, allows |-> allows, denies |-> denies]

\* a mutant of generateQueryGuardForModel: an update policy without a
\* before-mutation allow is constant false whatever the post-update side
generateQueryGuardForModel_noCounterpart(rules) ==
    LET policies == analyzePolicies(rules)
    IN [kind \in ALL_OPERATION_KINDS |->
          IF kind # "postUpdate" /\ policies[kind] = "true" THEN BoolEntry(TRUE)
          ELSE IF kind # "postUpdate" /\ policies[kind] = "false" THEN BoolEntry(FALSE)
          ELSE LET denies == getPolicyExpressions(rules, "deny", kind)
                   allows == getPolicyExpressions(rules, "allow", kind)
               IN IF kind = "update" /\ Len(allows) = 0 THEN BoolEntry(FALSE)
                  ELSE IF kind = "postUpdate" /\ Len(allows) = 0 /\ Len(denies) = 0
                  THEN BoolEntry(TRUE)
                  ELSE FnEntry(kind, allows, denies)]

\* the guard table of one model: operation kind -> boolean or guard function
generateQueryGuardForModel(rules) ==
    LET policies == analyzePolicies(rules)
    IN [kind \in ALL_OPERATION_KINDS |->
          IF kind # "postUpdate" /\ policies[kind] = "true" THEN BoolEntry(TRUE)
          ELSE IF kind # "postUpdate" /\ policies[kind] = "false" THEN BoolEntry(FALSE)
          ELSE LET denies == getPolicyExpressions(rules, "deny", kind)
                   allows == getPolicyExpressions(rules, "allow", kind)
               IN IF kind = "update" /\ Len(allows) = 0
                  THEN IF Len(getPolicyExpressions(rules, "allow", "postUpdate")) = 0
                       THEN BoolEntry(FALSE)
                       ELSE BoolEntry(TRUE)
                  ELSE IF kind = "postUpdate" /\ Len(allows) = 0 /\ Len(denies) = 0
                  THEN BoolEntry(TRUE)
                  ELSE FnEntry(kind, allows, denies)]

(***************************************************************************)
(* Filters (the store's where algebra)                                     *)
(***************************************************************************)
Undef == [t |-> "undef"]                      \* undefined: no where clause
Empty == [t |-> "empty"]                      \* {}
IdIn(S) == [t |-> "idIn", ids |-> S]          \* { id: { in: [...] } }
IdNotIn(S) == [t |-> "idNotIn", ids |-> S]    \* { id: { notIn: [...] } }
IdEq(i) == [t |-> "id", id |-> i]             \* { id: i }
VEq(x) == [t |-> "v", val |-> x]              \* { v: x }
TxEq(tag) == [t |-> "tx", tag |-> tag]        \* { zenstack_transaction: tag }
GuardField(b) == [t |-> "guardField", val |-> b] \* { zenstack_guard: b }
OwnerIs(uid) == [t |-> "ownerIs", id |-> uid]  \* { owner: uid }
AndF(cs) == [t |-> "AND", cs |-> cs]
OrF(cs) == [t |-> "OR", cs |-> cs]
NotF(c) == [t |-> "NOT", c |-> c]
\* { ...w, [rel]: sub }: own conditions plus a condition on a related row
RelF(w, rel, sub) == [t |-> "obj", w |-> w, rel |-> rel, sub |-> sub]
BoolC(b) == [t |-> "bool", b |-> b]           \* a boolean among conditions

IsObject(c) == c.t \notin {"bool", "undef"}

\* a mutant of and: a constant-false condition is dropped like a true one
and_dropFalse(conditions) ==
    LET filtered == SelectSeq(conditions, IsObject)
    IN IF Len(filtered) = 0 THEN Undef
       ELSE IF Len(filtered) = 1 THEN filtered[1]
       ELSE AndF(filtered)

\* a mutant of and: only the first object condition is kept
and_first(conditions) ==
    IF BoolC(FALSE) \in Range(conditions) THEN IdIn({})
    ELSE LET filtered == SelectSeq(conditions, IsObject)
         IN IF Len(filtered) = 0 THEN Undef ELSE filtered[1]

and(conditions) ==
    IF BoolC(FALSE) \in Range(conditions) THEN IdIn({})
    ELSE LET filtered == SelectSeq(conditions, IsObject)
         IN IF Len(filtered) = 0 THEN Undef
            ELSE IF Len(filtered) = 1 THEN filtered[1]
            ELSE AndF(filtered)

or(conditions) ==
    IF BoolC(TRUE) \in Range(conditions) THEN IdNotIn({})
    ELSE LET filtered == SelectSeq(conditions, IsObject)
         IN IF Len(filtered) = 0 THEN Undef
            ELSE IF Len(filtered) = 1 THEN filtered[1]
            ELSE OrF(filtered)

(***************************************************************************)
(* Model metadata of the schema: List 1-n Todo, User 1-n Todo               *)
(***************************************************************************)
Models == {"List", "Todo", "User"}

NoField == [name |-> "", type |-> "", isDataModel |-> FALSE,
            isArray |-> FALSE, backLink |-> ""]
RelField(name, type, isArray, backLink) ==
    [name |-> name, type |-> type, isDataModel |-> TRUE,
     isArray |-> isArray, backLink |-> backLink]

resolveField(model, field) ==
    CASE model = "List" /\ field = "todos" -> RelField("todos", "Todo", TRUE, "list")
      [] model = "Todo" /\ field = "list" -> RelField("list", "List", FALSE, "todos")
      [] model = "Todo" /\ field = "owner" -> RelField("owner", "User", FALSE, "todos")
      [] model = "User" /\ field = "todos" -> RelField("todos", "Todo", TRUE, "owner")
      \* a second to-one relation to the owner whose metadata has no backLink
      [] model = "Todo" /\ field = "editor" -> RelField("editor", "User", FALSE, "")
      [] OTHER -> NoField

(***************************************************************************)
(* The store: rows, relation navigation, filtered find and count           *)
(***************************************************************************)
NoTx == "none"
Row(model, id, v, list, owner, tx) ==
    [model |-> model, id |-> id, v |-> v, list |-> list, owner |-> owner, tx |-> tx]

\* the rows related to row through a relation field of its model
Related(row, field, db) ==
    CASE row.model = "List" /\ field = "todos" ->
            {r \in db : r.model = "Todo" /\ r.list = row.id}
      [] row.model = "Todo" /\ field = "list" ->
            {r \in db : r.model = "List" /\ r.id = row.list}
      [] row.model = "Todo" /\ field = "owner" ->
            {r \in db : r.model = "User" /\ r.id = row.owner}
      [] row.model = "User" /\ field = "todos" ->
            {r \in db : r.model = "Todo" /\ r.owner = row.id}
      [] row.model = "Todo" /\ field = "editor" ->
            {r \in db : r.model = "User" /\ r.id = row.owner}
      [] OTHER -> {}

RECURSIVE Matches(_, _, _)
Matches(row, f, db) ==
    CASE f.t = "undef" -> TRUE
      [] f.t = "empty" -> TRUE
      [] f.t = "idIn" -> row.id \in f.ids
      [] f.t = "idNotIn" -> row.id \notin f.ids
      [] f.t = "id" -> row.id = f.id
      [] f.t = "v" -> row.v = f.val
      [] f.t = "tx" -> row.tx = f.tag
      [] f.t = "guardField" -> f.val
      [] f.t = "ownerIs" -> ToString(row.owner) = f.id
      [] f.t = "AND" -> \A i \in DOMAIN f.cs : Matches(row, f.cs[i], db)
      [] f.t = "OR" -> \E i \in DOMAIN f.cs : Matches(row, f.cs[i], db)
      [] f.t = "NOT" -> ~Matches(row, f.c, db)
      [] f.t = "obj" -> /\ Matches(row, f.w, db)
                        /\ \E r \in Related(row, f.rel, db) : Matches(r, f.sub, db)

Find(model, where, db) == {r \in db : r.model = model /\ Matches(r, where, db)}
Count(model, where, db) == Cardinality(Find(model, where, db))

(***************************************************************************)
(* Guard functions: the generated policy.ts and PolicyUtil.getAuthGuard     *)
(***************************************************************************)
\* ExpressionWriter: a rule expression as a filter; in a postUpdate guard a
\* future() reference reads the current row
RECURSIVE ExprFilter(_, _, _)
ExprFilter(expr, isPostGuard, preValue) ==
    CASE expr.t = "lit" -> GuardField(expr.b)
      [] expr.t = "cmp" -> VEq(expr.val)
      [] expr.t = "owner" -> OwnerIs(expr.id)
      [] expr.t = "and" -> AndF(<<ExprFilter(expr.l, isPostGuard, preValue),
                                  ExprFilter(expr.r, isPostGuard, preValue)>>)
      [] expr.t = "or" -> OrF(<<ExprFilter(expr.l, isPostGuard, preValue),
                                ExprFilter(expr.r, isPostGuard, preValue)>>)
      [] expr.t = "not" -> NotF(ExprFilter(expr.e, isPostGuard, preValue))

\* a mutant of generateQueryGuardFunction: the denies are not negated
generateQueryGuardFunction_noNot(kind, allows, denies, preValue) ==
    LET w(e) == ExprFilter(e, kind = "postUpdate", preValue)
        writeDenies == IF Len(denies) > 1
                       THEN AndF([i \in DOMAIN denies |-> w(denies[i])])
                       ELSE w(denies[1])
        writeAllows == IF Len(allows) > 1
                       THEN OrF([i \in DOMAIN allows |-> w(allows[i])])
                       ELSE w(allows[1])
    IN IF Len(allows) > 0 /\ Len(denies) > 0 THEN AndF(<<writeDenies, writeAllows>>)
       ELSE IF Len(denies) > 0 THEN writeDenies
       ELSE IF Len(allows) > 0 THEN writeAllows
       ELSE GuardField(FALSE)

\* the body of a generated guard function: r = <guard object>
generateQueryGuardFunction(kind, allows, denies, preValue) ==
    LET w(e) == ExprFilter(e, kind = "postUpdate", preValue)
        writeDenies == IF Len(denies) > 1
                       THEN AndF([i \in DOMAIN denies |-> NotF(w(denies[i]))])
                       ELSE NotF(w(denies[1]))
        writeAllows == IF Len(allows) > 1
                       THEN OrF([i \in DOMAIN allows |-> w(allows[i])])
                       ELSE w(allows[1])
    IN IF Len(allows) > 0 /\ Len(denies) > 0 THEN AndF(<<writeDenies, writeAllows>>)
       ELSE IF Len(denies) > 0 THEN writeDenies
       ELSE IF Len(allows) > 0 THEN writeAllows
       ELSE GuardField(FALSE)

\* true/false (as BoolC) or the guard object of (model, operation)
\* getAuthGuard throwing unknownError("unable to load ... guard")
Thrown == [t |-> "throw"]

\* a mutant of getAuthGuardPre: a missing entry counts as constant false
getAuthGuardPre_missingFalse(model, operation, preValue) ==
    IF model \notin DOMAIN profile.guard THEN BoolC(FALSE)
    ELSE IF operation \notin DOMAIN profile.guard[model] THEN BoolC(FALSE)
    ELSE LET provider == profile.guard[model][operation]
         IN IF provider.k = "bool" THEN BoolC(provider.b)
            ELSE generateQueryGuardFunction(provider.kind, provider.allows,
                                            provider.denies, preValue)

getAuthGuardPre(model, operation, preValue) ==
    IF model \notin DOMAIN profile.guard THEN Thrown
    ELSE IF operation \notin DOMAIN profile.guard[model] THEN Thrown
    ELSE LET provider == profile.guard[model][operation]
         IN IF provider.k = "bool" THEN BoolC(provider.b)
            ELSE generateQueryGuardFunction(provider.kind, provider.allows,
                                            provider.denies, preValue)

NoPreValue == [model |-> "", id |-> 0]
getAuthGuard(model, operation) == getAuthGuardPre(model, operation, NoPreValue)

\* args.where = this.and(args.where, guard)
injectAuthGuard(where, model, operation) ==
    LET guard == getAuthGuard(model, operation)
    IN IF guard = Thrown THEN Thrown ELSE and(<<where, guard>>)

\* a mutant of checkPolicyForFilter: a check that never rejects
checkPolicyForFilter_pass(model, filter, operation, db) ==
    [ok |-> TRUE, err |-> "none", rejected |-> 0, ops |-> 2]

\* a mutant of checkPolicyForFilter: the guarded rows are reported as rejected
checkPolicyForFilter_wrongCount(model, filter, operation, db) ==
    LET count == Count(model, filter, db)
        guardedCount == Count(model, and(<<filter, getAuthGuard(model, operation)>>), db)
    IN IF guardedCount < count
       THEN [ok |-> FALSE, err |-> "denied", rejected |-> guardedCount, ops |-> 2]
       ELSE [ok |-> TRUE, err |-> "none", rejected |-> 0, ops |-> 2]

\* ok, or a denial reporting count - guardedCount, or the error of
\* getAuthGuard after the first count; ops: store operations issued
checkPolicyForFilter(model, filter, operation, db) ==
    LET count == Count(model, filter, db)
        guard == getAuthGuard(model, operation)
    IN IF guard = Thrown
       THEN [ok |-> FALSE, err |-> "noguard", rejected |-> 0, ops |-> 1]
       ELSE IF Count(model, and(<<filter, guard>>), db) < count
       THEN [ok |-> FALSE, err |-> "denied",
             rejected |-> count - Count(model, and(<<filter, guard>>), db), ops |-> 2]
       ELSE [ok |-> TRUE, err |-> "none", rejected |-> 0, ops |-> 2]

(***************************************************************************)
(* Reads: PolicyUtil.readWithCheck                                         *)
(***************************************************************************)
\* Query args: where, mode ("none": neither select nor include, "select",
\* "include", "true": the value true given for a relation field), id: whether
\* select.id is true, rels: the relation fields projected, each with its args
Args(where, mode, id, rels) == [where |-> where, mode |-> mode, id |-> id, rels |-> rels]
EmptyArgs == Args(Undef, "none", FALSE, <<>>)
TrueArgs == Args(Undef, "true", FALSE, <<>>)
Proj(field, sub) == [field |-> field, sub |-> sub]

\* a mutant of injectNestedReadConditions: no guard is injected for relations
injectNestedReadConditions_none(model, args) == args

RECURSIVE injectNestedReadConditions(_, _)
injectNestedReadConditions(model, args) ==
    IF args.mode \notin {"select", "include"} THEN args
    ELSE [args EXCEPT !.rels = [i \in DOMAIN args.rels |->
            LET e == args.rels[i]
                fieldInfo == resolveField(model, e.field)
            IN IF ~fieldInfo.isDataModel THEN e
               ELSE LET sub ==
                          IF fieldInfo.isArray
                          THEN LET obj == IF e.sub.mode = "true" THEN EmptyArgs ELSE e.sub
                               \* injectTarget.where: the select/include object has
                               \* no 'where' key of its own
                               IN [obj EXCEPT !.where =
                                      injectAuthGuard(Undef, fieldInfo.type, "read")]
                          ELSE IF e.sub.mode = "select" /\ ~e.sub.id
                               THEN [e.sub EXCEPT !.id = TRUE]
                               ELSE e.sub
                    IN Proj(e.field, injectNestedReadConditions(fieldInfo.type, sub))]]

\* The store's findMany: one entity per matching row, in id order. rid is the
\* row the entity was read from; id is 0 when the id field is not selected.
RECURSIVE Entity(_, _, _)
Entity(row, args, db) ==
    [rid |-> row.id,
     model |-> row.model,
     id |-> IF args.mode = "select" /\ ~args.id THEN 0 ELSE row.id,
     v |-> row.v,
     rels |-> IF args.mode \notin {"select", "include"} THEN <<>>
              ELSE [i \in DOMAIN args.rels |->
                      LET e == args.rels[i]
                          fieldInfo == resolveField(row.model, e.field)
                          rows == {r \in Related(row, e.field, db) :
                                      ~fieldInfo.isArray \/ Matches(r, e.sub.where, db)}
                          ordered == SeqOfSet(rows)
                      IN [field |-> e.field,
                          items |-> [j \in DOMAIN ordered |-> Entity(ordered[j], e.sub, db)]]]]

findMany(model, args, db) ==
    LET ordered == SeqOfSet(Find(model, args.where, db))
    IN [j \in DOMAIN ordered |-> Entity(ordered[j], args, db)]

\* the where of some relation of the args is an error of getAuthGuard
RECURSIVE NestedThrown(_)
NestedThrown(args) ==
    \E i \in DOMAIN args.rels :
        args.rels[i].sub.where = Thrown \/ NestedThrown(args.rels[i].sub)

Passed(ops) == [ok |-> TRUE, err |-> "none", ops |-> ops]
Sum2(a, b) == [ok |-> a.ok /\ b.ok, err |-> IF a.ok THEN b.err ELSE a.err,
               ops |-> a.ops + b.ops]

\* a mutant of postProcessForRead: to-one relations are not post-checked
postProcessForRead_skip(entityData, model, args, operation, db) == Passed(0)

\* ok iff no to-one check threw; ops: the counts issued
RECURSIVE postProcessForRead(_, _, _, _, _)
RECURSIVE postProcessFields(_, _, _, _, _, _)
postProcessForRead(entityData, model, args, operation, db) ==
    IF entityData.id = 0 THEN Passed(0)
    ELSE IF args.mode \notin {"select", "include"} THEN Passed(0)
    ELSE postProcessFields(entityData, model, args, operation, db, 1)

postProcessFields(entityData, model, args, operation, db, i) ==
    IF i > Len(args.rels) THEN Passed(0)
    ELSE LET e == args.rels[i]
             fieldInfo == resolveField(model, e.field)
             data == entityData.rels[i].items
         IN IF ~fieldInfo.isDataModel \/ fieldInfo.isArray
               \/ data = <<>> \/ data[1].id = 0
            THEN postProcessFields(entityData, model, args, operation, db, i + 1)
            ELSE LET chk == checkPolicyForFilter(fieldInfo.type, IdEq(data[1].id),
                                                 operation, db)
                 IN IF ~chk.ok THEN [ok |-> FALSE, err |-> chk.err, ops |-> chk.ops]
                    ELSE LET sub == postProcessForRead(data[1], fieldInfo.type,
                                                       e.sub, operation, db)
                         IN IF ~sub.ok
                            THEN [ok |-> FALSE, err |-> sub.err, ops |-> chk.ops + sub.ops]
                            ELSE Sum2(Passed(chk.ops + sub.ops),
                                      postProcessFields(entityData, model, args,
                                                        operation, db, i + 1))

RECURSIVE PostProcessAll(_, _, _, _, _)
PostProcessAll(result, model, args, db, i) ==
    IF i > Len(result) THEN Passed(0)
    ELSE Sum2(postProcessForRead(result[i], model, args, "read", db),
              PostProcessAll(result, model, args, db, i + 1))

\* the whole of readWithCheck: the injected args, the fetch, the post-checks
Fetched(args, result, post) ==
    [outcome |-> IF post.ok THEN "ok" ELSE post.err,
     result |-> IF post.ok THEN result ELSE <<>>,
     args |-> args,
     ops |-> 1 + post.ops]

Injected(model, args, db) ==
    IF args.where = Thrown \/ NestedThrown(args)
    THEN [outcome |-> "noguard", result |-> <<>>, args |-> args, ops |-> 0]
    ELSE Fetched(args, findMany(model, args, db),
                 PostProcessAll(findMany(model, args, db), model, args, db, 1))

NoArgs == [t |-> "undefined"]   \* args not given

\* a mutant of clone: a copy of the top level only, the select / include
\* objects below it are the caller's
clone_shallow(value) ==
    [value |-> IF value = NoArgs THEN EmptyArgs ELSE value, shared |-> "nested"]

\* value ? deepcopy(value) : {}; shared: what the copy shares with value
clone(value) ==
    [value |-> IF value = NoArgs THEN EmptyArgs ELSE value, shared |-> "none"]

\* the caller's args object once the working args have been written to
CallerSees(args0, copy, r) ==
    [outcome |-> r.outcome, result |-> r.result, args |-> r.args, ops |-> r.ops,
     caller |-> CASE copy.shared = "none" -> args0
                  [] copy.shared = "nested" /\ args0 # NoArgs ->
                        [args0 EXCEPT !.rels = r.args.rels]
                  [] OTHER -> args0]

\* readWithCheck on its working args
Working(model, args, where, db) ==
    IF where = Thrown
    THEN [outcome |-> "noguard", result |-> <<>>, args |-> args, ops |-> 0]
    ELSE Injected(model, injectNestedReadConditions(model, [args EXCEPT !.where = where]),
                  db)

readWithCheck(model, args0, db) ==
    CallerSees(args0, clone(args0),
               Working(model, clone(args0).value,
                       injectAuthGuard(clone(args0).value.where, model, "read"), db))

(***************************************************************************)
(* Writes: the argument tree of a write                                    *)
(***************************************************************************)
Keep == 0 - 1  \* data that leaves the field v alone
TxTag == "tx:create"   \* `${transactionId}:create` of the call

\* One element of an operation's args: where, data.v (v), the create part's v
\* of an upsert or a connectOrCreate (cv), the transaction marker put into created data (tx),
\* and the nested operations of its data (kids), each under a relation field
Item(where, v, cv, kids) ==
    [where |-> where, v |-> v, cv |-> cv, tx |-> NoTx, kids |-> kids]
\* An operation with its args as enumerate() lists them
Node(op, items) == [op |-> op, items |-> items]
Kid(field, node) == [field |-> field, node |-> node]

\* The ledger of a call and the error that ended its validation
Acc0 == [err |-> "none", created |-> {}, updModels |-> {}, snaps |-> {},
         ops |-> 0, rejected |-> 0]

Deny(acc) == [acc EXCEPT !.err = "denied"]
Fail(acc) == [acc EXCEPT !.err = "unknown"]
NoGuard(acc) == [acc EXCEPT !.err = "noguard"]

\* a mutant of processCreate: created rows are not marked for the post-check
processCreate_noTag(model, item, acc) ==
    LET guard == getAuthGuard(model, "create")
    IN IF guard = BoolC(FALSE) THEN [item |-> item, acc |-> Deny(acc)]
       ELSE [item |-> item, acc |-> acc]

processCreate(model, item, acc) ==
    LET guard == getAuthGuard(model, "create")
    IN IF guard = Thrown THEN [item |-> item, acc |-> NoGuard(acc)]
       ELSE IF guard = BoolC(FALSE) THEN [item |-> item, acc |-> Deny(acc)]
       ELSE IF guard # BoolC(TRUE)
       THEN [item |-> [item EXCEPT !.tx = TxTag],
             acc |-> [acc EXCEPT !.created = @ \cup {model}]]
       ELSE [item |-> item, acc |-> acc]

Spread(where) == IF where.t = "undef" THEN Empty ELSE where

\* the filter of the rows a nested operation reaches, folded from the
\* innermost path segment up to the root
RECURSIVE ReversedFrom(_, _)
ReversedFrom(path, i) ==
    IF i = 1 THEN Spread(path[1].where)
    ELSE RelF(Spread(path[i].where), path[i].field.backLink, ReversedFrom(path, i - 1))

\* a mutant of Assigned: the key is assigned to the path's own filter
Assigned_shared(where, rel, sub) == RelF(Spread(where), rel, sub)

\* a filter of the nesting path after currQuery[rel] = sub was executed on its
\* copy { ...where }: the copy is a new object, the filter keeps its keys
Assigned(where, rel, sub) == where

\* the nesting path as the fold leaves it
PathAfter(path) ==
    [i \in DOMAIN path |->
        IF i = 1 THEN path[i]
        ELSE [path[i] EXCEPT !.where = Assigned(@, path[i].field.backLink,
                                                ReversedFrom(path, i - 1))]]

\* a mutant of buildReversedQuery: a missing field or backLink is not an error
buildReversedQuery_noThrow(context) ==
    [err |-> FALSE, q |-> ReversedFrom(context.nestingPath, Len(context.nestingPath)),
     path |-> PathAfter(context.nestingPath)]

buildReversedQuery(context) ==
    LET path == context.nestingPath
    IN IF \E i \in 2..Len(path) : ~path[i].field.isDataModel \/ path[i].field.backLink = ""
       THEN [err |-> TRUE, q |-> Undef, path |-> path]
       ELSE [err |-> FALSE, q |-> ReversedFrom(path, Len(path)), path |-> PathAfter(path)]

isToOneRelation(field) == field.isDataModel /\ ~field.isArray

\* a mutant of fetchAndRecordPreValues: only a false guard records
fetchAndRecordPreValues_falseOnly(model, context, acc, db) ==
    LET postGuard == getAuthGuard(model, "postUpdate")
    IN IF postGuard = Thrown THEN NoGuard(acc)
       ELSE IF postGuard = BoolC(FALSE)
       THEN LET subQuery == buildReversedQuery(context)
            IN IF subQuery.err
               THEN Fail([acc EXCEPT !.updModels = @ \cup {model}])
               ELSE [acc EXCEPT !.updModels = @ \cup {model},
                                !.snaps = @ \cup Find(model, subQuery.q, db),
                                !.ops = @ + 1]
       ELSE acc

fetchAndRecordPreValues(model, context, acc, db) ==
    LET postGuard == getAuthGuard(model, "postUpdate")
    IN IF postGuard = Thrown THEN NoGuard(acc)
       ELSE IF postGuard # BoolC(TRUE)
       THEN LET subQuery == buildReversedQuery(context)
            IN IF subQuery.err
               THEN Fail([acc EXCEPT !.updModels = @ \cup {model}])
               ELSE [acc EXCEPT !.updModels = @ \cup {model},
                                !.snaps = @ \cup Find(model, subQuery.q, db),
                                !.ops = @ + 1]
       ELSE acc

Checked(acc, chk) ==
    IF chk.ok THEN [acc EXCEPT !.ops = @ + chk.ops]
    ELSE [acc EXCEPT !.ops = @ + chk.ops, !.err = chk.err, !.rejected = chk.rejected]

\* a mutant of processUpdate: the before-mutation guard is not checked
processUpdate_noPre(model, item, context, acc, db) ==
    LET preGuard == getAuthGuard(model, "update")
    IN IF preGuard = BoolC(FALSE) THEN Deny(acc)
       ELSE fetchAndRecordPreValues(model, context, acc, db)

\* a mutant of processUpdate: no pre-mutation snapshot is taken
processUpdate_noSnap(model, item, context, acc, db) ==
    LET preGuard == getAuthGuard(model, "update")
    IN IF preGuard = BoolC(FALSE) THEN Deny(acc)
       ELSE IF preGuard # BoolC(TRUE)
       THEN IF item.where.t = "undef" THEN Fail(acc)
            ELSE Checked(acc, checkPolicyForFilter(model, item.where, "update", db))
       ELSE acc

\* a mutant of processUpdate: a constant-false guard does not deny
processUpdate_noDeny(model, item, context, acc, db) ==
    fetchAndRecordPreValues(model, context, acc, db)

processUpdate(model, item, context, acc, db) ==
    LET preGuard == getAuthGuard(model, "update")
    IN IF preGuard = Thrown THEN NoGuard(acc)
       ELSE IF preGuard = BoolC(FALSE) THEN Deny(acc)
       ELSE LET acc1 ==
                  IF preGuard # BoolC(TRUE)
                  THEN IF isToOneRelation(context.field)
                       THEN LET subQuery == buildReversedQuery(context)
                            IN IF subQuery.err THEN Fail(acc)
                               ELSE Checked(acc, checkPolicyForFilter(
                                                model, subQuery.q, "update", db))
                       ELSE IF item.where.t = "undef" THEN Fail(acc)
                       ELSE Checked(acc, checkPolicyForFilter(
                                        model, item.where, "update", db))
                  ELSE acc
            IN IF acc1.err # "none" THEN acc1
               ELSE fetchAndRecordPreValues(model, context, acc1, db)

\* a mutant of processUpdateMany: a conditional guard is not injected
processUpdateMany_noInject(model, item, context, acc, db) ==
    LET guard == getAuthGuard(model, "update")
    IN IF guard = Thrown THEN [item |-> item, acc |-> NoGuard(acc)]
       ELSE IF guard = BoolC(FALSE) THEN [item |-> item, acc |-> Deny(acc)]
       ELSE [item |-> item, acc |-> fetchAndRecordPreValues(model, context, acc, db)]

processUpdateMany(model, item, context, acc, db) ==
    LET guard == getAuthGuard(model, "update")
    IN IF guard = Thrown THEN [item |-> item, acc |-> NoGuard(acc)]
       ELSE IF guard = BoolC(FALSE) THEN [item |-> item, acc |-> Deny(acc)]
       ELSE [item |-> IF guard # BoolC(TRUE)
                      THEN [item EXCEPT !.where = injectAuthGuard(@, model, "update")]
                      ELSE item,
             acc |-> fetchAndRecordPreValues(model, context, acc, db)]

processDelete(model, item, context, acc, db) ==
    LET guard == getAuthGuard(model, "delete")
    IN IF guard = Thrown THEN NoGuard(acc)
       ELSE IF guard = BoolC(FALSE) THEN Deny(acc)
       ELSE IF guard # BoolC(TRUE)
       THEN IF isToOneRelation(context.field)
            THEN LET subQuery == buildReversedQuery(context)
                 IN IF subQuery.err THEN Fail(acc)
                    ELSE Checked(acc, checkPolicyForFilter(model, subQuery.q, "delete", db))
            ELSE Checked(acc, checkPolicyForFilter(model, item.where, "delete", db))
       ELSE acc

\* a mutant of processDeleteMany: a conditional guard is not injected
processDeleteMany_noInject(model, item, acc) ==
    LET guard == getAuthGuard(model, "delete")
    IN IF guard = Thrown THEN [item |-> item, acc |-> NoGuard(acc)]
       ELSE IF guard = BoolC(FALSE) THEN [item |-> item, acc |-> Deny(acc)]
       ELSE [item |-> item, acc |-> acc]

processDeleteMany(model, item, acc) ==
    LET guard == getAuthGuard(model, "delete")
    IN IF guard = Thrown THEN [item |-> item, acc |-> NoGuard(acc)]
       ELSE IF guard = BoolC(FALSE) THEN [item |-> item, acc |-> Deny(acc)]
       ELSE IF guard # BoolC(TRUE)
       THEN [item |-> [item EXCEPT !.where = and(<<@, guard>>)], acc |-> acc]
       ELSE [item |-> item, acc |-> acc]

processUpsert(model, item, context, acc, db) ==
    LET c == processCreate(model, item, acc)
    IN IF c.acc.err # "none" THEN c
       ELSE [item |-> c.item, acc |-> processUpdate(model, item, context, c.acc, db)]

\* the callback of the visitor for one element of an operation's args
Callback(model, op, item, context, acc, db) ==
    CASE op = "create" -> processCreate(model, item, acc)
      [] op = "connectOrCreate" -> processCreate(model, item, acc)
      [] op = "update" -> [item |-> item,
                           acc |-> processUpdate(model, item, context, acc, db)]
      [] op = "updateMany" -> processUpdateMany(model, item, context, acc, db)
      [] op = "upsert" -> processUpsert(model, item, context, acc, db)
      [] op = "delete" -> [item |-> item,
                           acc |-> processDelete(model, item, context, acc, db)]
      [] op = "deleteMany" -> processDeleteMany(model, item, acc)

(***************************************************************************)
(* NestedWriteVisitor: the structural walk that drives the callbacks       *)
(***************************************************************************)
ItemPath(op, item, field, path) ==
    Append(path, [field |-> field,
                  where |-> IF op = "create" THEN Empty ELSE item.where])

\* the callback on every element of the args, in order, until one throws
RECURSIVE VisitItems(_, _, _, _, _, _, _, _)
VisitItems(model, op, items, field, path, acc, db, i) ==
    IF i > Len(items) \/ acc.err # "none" THEN [items |-> items, acc |-> acc]
    ELSE LET context == [field |-> field,
                         nestingPath |-> ItemPath(op, items[i], field, path)]
             r == Callback(model, op, items[i], context, acc, db)
         IN VisitItems(model, op, [items EXCEPT ![i] = r.item], field, path,
                       r.acc, db, i + 1)

RECURSIVE VisitNode(_, _, _, _, _, _)
RECURSIVE VisitKids(_, _, _, _, _, _, _, _, _)
KidsNext(model, op, items, field, path, db, i, j, r) ==
    VisitKids(model, op,
              [items EXCEPT ![i].kids[j] = Kid(items[i].kids[j].field, r.node)],
              field, path, r.acc, db, i, j + 1)

\* the nested operations of items[i..], kids[j..] of the first of them
VisitKids(model, op, items, field, path, acc, db, i, j) ==
    IF i > Len(items) \/ acc.err # "none" THEN [items |-> items, acc |-> acc]
    ELSE IF j > Len(items[i].kids)
    THEN VisitKids(model, op, items, field, path, acc, db, i + 1, 1)
    ELSE KidsNext(model, op, items, field, path, db, i, j,
                  VisitNode(resolveField(model, items[i].kids[j].field).type,
                            items[i].kids[j].node,
                            resolveField(model, items[i].kids[j].field),
                            ItemPath(op, items[i], field, path), acc, db))

NodeOf(op, sub) == [node |-> Node(op, sub.items), acc |-> sub.acc]
KidsOf(model, op, field, path, db, own) ==
    NodeOf(op, VisitKids(model, op, own.items, field, path, own.acc, db, 1, 1))

VisitNode(model, node, field, path, acc, db) ==
    KidsOf(model, node.op, field, path, db,
           VisitItems(model, node.op, node.items, field, path, acc, db, 1))

\* visitor.visit(model, action, args)
Visit(model, node, db) == VisitNode(model, node, NoField, <<>>, Acc0, db)

(***************************************************************************)
(* The store's execution of a (processed) write: writeAction(db, args)     *)
(***************************************************************************)
NoRow == Row("", 0, 0, 0, 0, NoTx)

MaxId(db) ==
    IF db = {} THEN 0
    ELSE LET r == CHOOSE x \in db : \A y \in db : y.id <= x.id IN r.id

FreshId(db) == MaxId(db) + 1

CurrentRow(id, db) == IF \E r \in db : r.id = id
                      THEN CHOOSE r \in db : r.id = id ELSE NoRow

\* the rows an operation on model under parent.field can reach
Reach(model, parent, field, db) ==
    IF parent.id = 0 THEN {r \in db : r.model = model}
    ELSE Related(CurrentRow(parent.id, db), field.name, db)

Targets(model, item, parent, field, db) ==
    {r \in Reach(model, parent, field, db) : Matches(r, item.where, db)}

SetV(db, rows, v) ==
    IF v = Keep THEN db
    ELSE (db \ rows) \cup {[r EXCEPT !.v = v] : r \in rows}

NewRow(model, id, v, tx, parent, field) ==
    Row(model, id, v,
        IF parent.model = "List" /\ field.name = "todos" THEN parent.id ELSE 0,
        IF parent.model = "User" /\ field.name = "todos" THEN parent.id ELSE 0,
        tx)

\* connect: the row is linked to parent through the relation field
Connect(row, parent, field) ==
    IF parent.model = "List" /\ field.name = "todos" THEN [row EXCEPT !.list = parent.id]
    ELSE IF parent.model = "User" /\ field.name = "todos"
    THEN [row EXCEPT !.owner = parent.id]
    ELSE row

RECURSIVE ExecNode(_, _, _, _, _)
RECURSIVE ExecKids(_, _, _, _, _)
RECURSIVE ExecItems(_, _, _, _, _, _, _)

\* the nested operations kids[j..] of the data of row parent
ExecKids(model, kids, parent, s, j) ==
    IF j > Len(kids) \/ s.err # "none" THEN s
    ELSE LET fieldInfo == resolveField(model, kids[j].field)
         IN ExecKids(model, kids, parent,
                     ExecNode(fieldInfo.type, kids[j].node, parent, fieldInfo, s.db),
                     j + 1)

ExecItem(model, op, item, parent, field, db) ==
    LET targets == Targets(model, item, parent, field, db)
        new == NewRow(model, FreshId(db),
                      IF op \in {"upsert", "connectOrCreate"} THEN item.cv ELSE item.v,
                      item.tx, parent, field)
        found == Find(model, item.where, db)
    IN CASE op = "create" ->
              ExecKids(model, item.kids, new, [db |-> db \cup {new}, err |-> "none"], 1)
         [] op = "connectOrCreate" ->
              IF found = {} THEN [db |-> db \cup {new}, err |-> "none"]
              ELSE [db |-> (db \ found) \cup {Connect(r, parent, field) : r \in found},
                    err |-> "none"]
         [] op = "update" ->
              IF targets = {} THEN [db |-> db, err |-> "notfound"]
              ELSE ExecKids(model, item.kids, CHOOSE r \in targets : TRUE,
                            [db |-> SetV(db, targets, item.v), err |-> "none"], 1)
         [] op = "updateMany" -> [db |-> SetV(db, targets, item.v), err |-> "none"]
         [] op = "upsert" ->
              IF targets = {} THEN [db |-> db \cup {new}, err |-> "none"]
              ELSE [db |-> SetV(db, targets, item.v), err |-> "none"]
         [] op = "delete" ->
              IF targets = {} THEN [db |-> db, err |-> "notfound"]
              ELSE [db |-> db \ targets, err |-> "none"]
         [] op = "deleteMany" -> [db |-> db \ targets, err |-> "none"]

ExecItems(model, op, items, parent, field, s, i) ==
    IF i > Len(items) \/ s.err # "none" THEN s
    ELSE ExecItems(model, op, items, parent, field,
                   ExecItem(model, op, items[i], parent, field, s.db), i + 1)

ExecNode(model, node, parent, field, db) ==
    ExecItems(model, node.op, node.items, parent, field,
              [db |-> db, err |-> "none"], 1)

\* writeAction: the whole write is one statement of the store, all or nothing
writeAction(model, node, db) ==
    LET r == ExecNode(model, node, NoRow, NoField, db)
    IN IF r.err = "none" THEN r ELSE [db |-> db, err |-> r.err]

(***************************************************************************)
(* Post-checks of processWrite                                             *)
(***************************************************************************)
\* a mutant of checkPostUpdate: the post-update guard is not applied
checkPostUpdate_noGuard(model, id, db, preValue) ==
    Count(model, IdEq(id), db) # 0

\* TRUE iff the check passes (guardedCount is not 0)
checkPostUpdate(model, id, db, preValue) ==
    LET guard == getAuthGuardPre(model, "postUpdate", preValue)
        guardedCount == Count(model, and(<<IdEq(id), guard>>), db)
    IN guardedCount # 0

CreateChecks(created, db) ==
    {checkPolicyForFilter(model, TxEq(TxTag), "create", db) : model \in created}

\* Promise.all of the create checks and of the post-update checks
PostChecksPass(created, snaps, db) ==
    /\ \A c \in CreateChecks(created, db) : c.ok
    /\ \A pre \in snaps : checkPostUpdate(pre.model, pre.id, db, pre)

\* the orders in which the promises of a set of checks can settle
Orders(S) == {o \in [1..Cardinality(S) -> S] : \A x \in S : \E i \in DOMAIN o : o[i] = x}

NoCheck == [model |-> "", id |-> 0]
CreateCheck(model) == [model |-> model, id |-> 0]
UpdateCheck(pre) == [model |-> pre.model, id |-> pre.id]

\* a mutant of PromiseAll: the promise that settles first decides
PromiseAll_race(order, pass) ==
    IF order = <<>> \/ pass[order[1]] THEN [ok |-> TRUE, by |-> NoCheck]
    ELSE [ok |-> FALSE, by |-> order[1]]

\* Promise.all over checks settling in the given order; pass[c] tells whether
\* check c resolves: rejected by the first rejection, resolved after the last
PromiseAll(order, pass) ==
    LET bad == {i \in DOMAIN order : ~pass[order[i]]}
    IN IF bad = {} THEN [ok |-> TRUE, by |-> NoCheck]
       ELSE [ok |-> FALSE, by |-> order[CHOOSE i \in bad : \A j \in bad : i <= j]]

\* the two awaited batches of the transaction: the create checks, then the
\* post-update checks, each batch settling in its own order
\* a mutant of PostChecks: the create checks count the rows of every call
PostChecks_anyTag(createOrder, updateOrder, db) ==
    LET creates == PromiseAll([i \in DOMAIN createOrder |-> CreateCheck(createOrder[i])],
                       [c \in {CreateCheck(m) : m \in Range(createOrder)} |->
                           checkPolicyForFilter(c.model, NotF(TxEq(NoTx)), "create", db).ok])
        updates == PromiseAll([i \in DOMAIN updateOrder |-> UpdateCheck(updateOrder[i])],
                       [c \in {UpdateCheck(pre) : pre \in Range(updateOrder)} |->
                           \A pre \in Range(updateOrder) :
                              UpdateCheck(pre) = c
                                 => checkPostUpdate(pre.model, pre.id, db, pre)])
    IN IF creates.ok THEN updates ELSE creates

PostChecks(createOrder, updateOrder, db) ==
    LET creates == PromiseAll([i \in DOMAIN createOrder |-> CreateCheck(createOrder[i])],
                       [c \in {CreateCheck(m) : m \in Range(createOrder)} |->
                           checkPolicyForFilter(c.model, TxEq(TxTag), "create", db).ok])
        updates == PromiseAll([i \in DOMAIN updateOrder |-> UpdateCheck(updateOrder[i])],
                       [c \in {UpdateCheck(pre) : pre \in Range(updateOrder)} |->
                           \A pre \in Range(updateOrder) :
                              UpdateCheck(pre) = c
                                 => checkPostUpdate(pre.model, pre.id, db, pre)])
    IN IF creates.ok THEN updates ELSE creates

(***************************************************************************)
(* The inputs: rule sets, initial stores, read and write requests          *)
(***************************************************************************)
Vals == {0, 1}
TodoIds == 1..NTodos
UserId == NTodos + 1
ListId == NTodos + 2
MissingId == NTodos + 10   \* the id of no row

AllowAll == Rule("allow", <<"all">>, Lit(TRUE))
RAll == <<AllowAll>>
RNone == <<>>
RCond == <<Rule("allow", <<"all">>, Cmp(FALSE, 1))>>
RSplit == <<Rule("allow", <<"create", "read", "delete">>, Lit(TRUE)),
            Rule("allow", <<"update">>, AndE(Cmp(FALSE, 1), Cmp(TRUE, 1)))>>
RPost == <<Rule("allow", <<"create", "read", "delete">>, Lit(TRUE)),
           Rule("allow", <<"update">>, Cmp(TRUE, 1))>>
RDenyUpd == <<AllowAll, Rule("deny", <<"update">>, Lit(TRUE))>>
RDenyCond == <<AllowAll, Rule("deny", <<"all">>, Cmp(FALSE, 0))>>
RDenyAll == <<Rule("allow", <<"all">>, Cmp(FALSE, 1)), Rule("deny", <<"all">>, Lit(TRUE))>>

RuleProfile(list, todo, user) == [List |-> list, Todo |-> todo, User |-> user]

RuleProfiles ==
    {RuleProfile(RAll, t, RAll) :
        t \in {RAll, RNone, RCond, RSplit, RPost, RDenyUpd, RDenyCond, RDenyAll}}
    \cup {RuleProfile(RAll, t, RCond) : t \in {RAll, RCond}}
    \cup {RuleProfile(RCond, t, RAll) : t \in {RAll, RCond}}
    \cup {RuleProfile(RAll, RAll, RNone), RuleProfile(RNone, RAll, RAll),
          RuleProfile(RCond, RNone, RAll),
          RuleProfile(RCond, RCond, RCond)}

\* policy.guard: built once from the rules
GuardTable(rules) == [m \in Models |-> generateQueryGuardForModel(rules[m])]

\* one user owning one list of NTodos todos, with every choice of v
Stores ==
    {{Row("User", UserId, uv, 0, 0, NoTx), Row("List", ListId, lv, 0, 0, NoTx)}
        \cup {Row("Todo", t, tv[t], ListId, UserId, NoTx) : t \in TodoIds} :
     uv \in Vals, lv \in Vals, tv \in [TodoIds -> Vals]}

Batches == UNION {[1..n -> Vals] : n \in 1..MaxBatch}
CreateItems(vs) == [i \in DOMAIN vs |-> Item(Undef, vs[i], Keep, <<>>)]
One(item) == <<item>>
Req(model, node) == [model |-> model, node |-> node]

WriteRequests ==
    \* create / createMany of todos
    {Req("Todo", Node("create", CreateItems(vs))) : vs \in Batches}
    \* a list created with its todos
    \cup {Req("List", Node("create", One(Item(Undef, lv, Keep,
              <<Kid("todos", Node("create", CreateItems(vs)))>>)))) :
          lv \in Vals, vs \in Batches}
    \* update of one todo, found or missing
    \cup {Req("Todo", Node("update", One(Item(IdEq(t), x, Keep, <<>>)))) :
          t \in TodoIds \cup {MissingId}, x \in Vals}
    \* update of the list
    \cup {Req("List", Node("update", One(Item(IdEq(ListId), x, Keep, <<>>)))) : x \in Vals}
    \* update of the list with a nested to-many operation on its todos
    \cup {Req("List", Node("update", One(Item(IdEq(ListId), Keep, Keep,
              <<Kid("todos", Node("update", One(Item(IdEq(t), x, Keep, <<>>))))>>)))) :
          t \in TodoIds, x \in Vals}
    \cup {Req("List", Node("update", One(Item(IdEq(ListId), 0, Keep,
              <<Kid("todos", Node("create", CreateItems(vs)))>>)))) :
          vs \in [1..1 -> Vals]}
    \cup {Req("List", Node("update", One(Item(IdEq(ListId), Keep, Keep,
              <<Kid("todos", Node(op, One(Item(VEq(a), x, Keep, <<>>))))>>)))) :
          op \in {"updateMany", "deleteMany"}, a \in Vals, x \in {1}}
    \* update of the list with nested updates of two of its todos
    \cup {Req("List", Node("update", One(Item(IdEq(ListId), Keep, Keep,
              <<Kid("todos", Node("update", <<Item(IdEq(1), x, Keep, <<>>),
                                              Item(IdEq(2), 1 - x, Keep, <<>>)>>))>>)))) :
          x \in Vals}
    \* update of the user connecting one of its todos, or creating it
    \cup {Req("User", Node("update", One(Item(IdEq(UserId), Keep, Keep,
              <<Kid("todos", Node("connectOrCreate",
                                  One(Item(IdEq(t), Keep, x, <<>>))))>>)))) :
          t \in {1, MissingId}, x \in Vals}
    \* update of a todo with a nested to-one update of its owner or its list
    \cup {Req("Todo", Node("update", One(Item(IdEq(t), Keep, Keep,
              <<Kid(f, Node("update", One(Item(Undef, x, Keep, <<>>))))>>)))) :
          t \in TodoIds, f \in {"owner", "list"}, x \in Vals}
    \* the same through the relation without a backLink
    \cup {Req("Todo", Node("update", One(Item(IdEq(t), Keep, Keep,
              <<Kid("editor", Node("update", One(Item(Undef, x, Keep, <<>>))))>>)))) :
          t \in {1}, x \in Vals}
    \* updateMany, delete, deleteMany, upsert of todos
    \cup {Req("Todo", Node("updateMany", One(Item(w, x, Keep, <<>>)))) :
          w \in {Undef, VEq(0), VEq(1)}, x \in Vals}
    \cup {Req("Todo", Node("delete", One(Item(IdEq(t), Keep, Keep, <<>>)))) :
          t \in TodoIds}
    \cup {Req("Todo", Node("deleteMany", One(Item(w, Keep, Keep, <<>>)))) :
          w \in {Undef, VEq(0)}}
    \cup {Req("Todo", Node("deleteMany",
              <<Item(VEq(0), Keep, Keep, <<>>), Item(VEq(1), Keep, Keep, <<>>)>>))}
    \* update of the list deleting todos by a list of two filters
    \cup {Req("List", Node("update", One(Item(IdEq(ListId), Keep, Keep,
              <<Kid("todos", Node("deleteMany",
                                  <<Item(VEq(a), Keep, Keep, <<>>),
                                    Item(IdEq(1), Keep, Keep, <<>>)>>))>>)))) :
          a \in Vals}
    \cup {Req("Todo", Node("upsert", One(Item(IdEq(t), x, x, <<>>)))) :
          t \in TodoIds \cup {MissingId}, x \in Vals}

Sel(id, rels) == Args(Undef, "select", id, rels)
Inc(rels) == Args(Undef, "include", FALSE, rels)
ReadReq(model, args) == [model |-> model, args |-> args]

ReadRequests ==
    {ReadReq("Todo", Args(w, "none", FALSE, <<>>)) : w \in {Undef, VEq(0), VEq(1)}}
    \cup {ReadReq(m, NoArgs) : m \in {"Todo", "User"}}
    \cup {ReadReq("Todo", Args(w, "include", FALSE, <<Proj("owner", TrueArgs)>>)) :
          w \in {Undef, VEq(1)}}
    \cup {ReadReq("Todo", a) : a \in
            {Sel(TRUE, <<Proj("owner", TrueArgs)>>),
             Sel(FALSE, <<Proj("owner", TrueArgs)>>),
             Sel(TRUE, <<Proj("owner", Sel(FALSE, <<>>))>>),
             Inc(<<Proj("owner", TrueArgs), Proj("list", TrueArgs)>>),
             Inc(<<Proj("list", Inc(<<Proj("todos", TrueArgs)>>))>>)}}
    \cup {ReadReq("List", a) : a \in
            {Args(Undef, "none", FALSE, <<>>),
             Inc(<<Proj("todos", TrueArgs)>>),
             Sel(TRUE, <<Proj("todos", TrueArgs)>>),
             Inc(<<Proj("todos", Args(VEq(1), "none", FALSE, <<>>))>>),
             Inc(<<Proj("todos", Inc(<<Proj("owner", TrueArgs)>>))>>)}}
    \cup {ReadReq("User", a) : a \in
            {Inc(<<Proj("todos", TrueArgs)>>),
             Inc(<<Proj("todos", Inc(<<Proj("list", TrueArgs)>>))>>)}}

(***************************************************************************)
(* The state machine: one PolicyUtil call over a store                     *)
(***************************************************************************)
NoReq == [model |-> ""]
IdleCall ==
    [phase |-> "idle", kind |-> "none", req |-> NoReq, args |-> NoReq,
     created |-> {}, updModels |-> {}, snaps |-> {}, pre |-> {},
     outcome |-> "none", result |-> <<>>, failedBy |-> NoCheck,
     callerArgs |-> NoReq, others |-> 0, ops |-> 0, writes |-> 0,
     rejected |-> 0, txn |-> FALSE, txBase |-> {}, txView |-> {},
     count |-> 0, clean |-> TRUE, left |-> 0, course |-> <<>>]

IdleSt == [phase |-> "idle", rules |-> <<>>, op |-> "", res |-> "",
           allows |-> <<>>, denies |-> <<>>, guard |-> Undef, table |-> <<>>,
           path |-> <<>>, pathAfter |-> <<>>,
           expr |-> NoExpr, saved |-> NoExpr, n |-> 0,
           before |-> NoExpr, after |-> NoExpr, exprAfter |-> NoExpr,
           user |-> Undef, again |-> Undef, conds |-> <<>>]

Init ==
    /\ store \in Stores
    /\ \E rules \in RuleProfiles :
          profile = [rules |-> rules, guard |-> GuardTable(rules)]
    /\ call = IdleCall
    /\ st = IdleSt

\* guard tables of a policy module that lacks a model or one operation of a
\* model, beside the complete one
Without(f, S) == [x \in DOMAIN f \ S |-> f[x]]
ConfigRules == {RuleProfile(RCond, RCond, RCond), RuleProfile(RAll, RPost, RNone)}
ConfigTables(rules) ==
    {GuardTable(rules)}
    \cup {Without(GuardTable(rules), {m}) : m \in Models}
    \cup {[GuardTable(rules) EXCEPT ![m] = Without(@, {kind})] :
            m \in Models, kind \in ALL_OPERATION_KINDS}

InitConfig ==
    /\ store \in Stores
    /\ \E rules \in ConfigRules : \E guard \in ConfigTables(rules) :
          profile = [rules |-> rules, guard |-> guard]
    /\ call = IdleCall
    /\ st = IdleSt

AfterRead(req, r) ==
    [call EXCEPT !.phase = "done", !.kind = "read", !.req = req,
                 !.args = r.args, !.callerArgs = r.caller, !.pre = store,
                 !.outcome = r.outcome, !.result = r.result, !.ops = r.ops]

\* readWithCheck(model, args)
ReadCall ==
    /\ call.phase = "idle"
    /\ \E req \in ReadRequests :
          call' = AfterRead(req, readWithCheck(req.model, req.args, store))
    /\ UNCHANGED <<store, profile, st>>

\* a mutant of AfterVisit: the write goes ahead although the traversal threw
AfterVisit_ignoreError(req, r) ==
    [call EXCEPT
        !.phase = "validated", !.kind = "write", !.req = req, !.args = r.node,
        !.created = r.acc.created, !.updModels = r.acc.updModels,
        !.snaps = r.acc.snaps, !.pre = store, !.outcome = "none",
        !.ops = r.acc.ops, !.rejected = r.acc.rejected]

AfterVisit(req, r) ==
    [call EXCEPT
        !.phase = IF r.acc.err = "none" THEN "validated" ELSE "done",
        !.kind = "write", !.req = req, !.args = r.node,
        !.created = r.acc.created, !.updModels = r.acc.updModels,
        !.snaps = r.acc.snaps, !.pre = store,
        !.outcome = IF r.acc.err = "none" THEN "none" ELSE r.acc.err,
        !.ops = r.acc.ops, !.rejected = r.acc.rejected]

\* processWrite up to the end of visitor.visit: the argument tree is
\* validated and annotated, or the call fails
WriteValidate ==
    /\ call.phase = "idle"
    /\ \E req \in WriteRequests :
          call' = AfterVisit(req, Visit(req.model, req.node, store))
    /\ UNCHANGED <<store, profile, st>>

\* a mutant of AfterWrite: the call ends with the write, unchecked
AfterWrite_noPostCheck(c, direct, r) ==
    [c EXCEPT
        !.phase = "done", !.txn = ~direct, !.writes = @ + 1, !.ops = @ + 1,
        !.outcome = IF r.err # "none" THEN r.err ELSE "ok"]

AfterWrite(c, direct, r) ==
    [c EXCEPT
        !.phase = IF direct \/ r.err # "none" THEN "done" ELSE "postcheck",
        !.txn = ~direct,
        !.writes = @ + 1,
        !.ops = @ + 1,
        !.outcome = IF r.err # "none" THEN r.err
                    ELSE IF direct THEN "ok" ELSE "none"]

\* the rows of the store once a transaction that began on base and wrote
\* view commits
Commit(db, base, view) ==
    {r \in db : r.id \notin {x.id : x \in base \ view}} \cup (view \ base)

\* a direct write changes the store; a write in the transaction changes the
\* transaction's view (tx), which began on the store as it is now
InTx(c, r, db) == [c EXCEPT !.txBase = db, !.txView = r.db]

\* the call c and the store db after the write action
WrittenOf(c, db, direct, r) ==
    [c |-> IF direct THEN AfterWrite(c, direct, r)
           ELSE InTx(AfterWrite(c, direct, r), r, db),
     db |-> IF direct THEN r.db ELSE db]

Becomes(w) == call' = w.c /\ store' = w.db

Written(direct, r) == Becomes(WrittenOf(call, store, direct, r))

\* a mutant of WriteExecute: only created models open the transaction
WriteExecute_createdOnly ==
    /\ call.phase = "validated"
    /\ Written(call.created = {},
               writeAction(call.req.model, call.args, store))
    /\ UNCHANGED <<profile, st>>

\* the write action: directly when nothing is to be post-checked, otherwise
\* as the first statement of the transaction
WriteExecute ==
    /\ call.phase = "validated"
    /\ Written(call.created = {} /\ call.updModels = {},
               writeAction(call.req.model, call.args, store))
    /\ UNCHANGED <<profile, st>>

\* a mutant of SettledOf: a failed post-check sends the call back to its write
SettledOf_retry(c, db, checks) ==
    IF checks.ok
    THEN [c |-> [c EXCEPT !.phase = "done", !.outcome = "ok"],
          db |-> Commit(db, c.txBase, c.txView)]
    ELSE [c |-> [c EXCEPT !.phase = "validated", !.failedBy = checks.by],
          db |-> db]

\* the post-checks inside the transaction: commit, or throw and roll back
SettledOf(c, db, checks) ==
    IF checks.ok
    THEN [c |-> [c EXCEPT !.phase = "done", !.outcome = "ok"],
          db |-> Commit(db, c.txBase, c.txView)]
    ELSE [c |-> [c EXCEPT !.phase = "done", !.outcome = "denied",
                          !.failedBy = checks.by],
          db |-> db]

Settled(checks) == Becomes(SettledOf(call, store, checks))

\* a mutant of TxState: the post-checks go to the client, not to tx
TxState_client(db, c) == db

\* what a statement issued on tx reads: the transaction's own view
TxState(db, c) == c.txView

WritePostCheck ==
    /\ call.phase = "postcheck"
    /\ \E createOrder \in Orders(call.created) : \E updateOrder \in Orders(call.snaps) :
          Settled(PostChecks(createOrder, updateOrder, TxState(store, call)))
    /\ UNCHANGED <<profile, st>>

CheckRequests ==
    {[model |-> m, filter |-> f, operation |-> op] :
        m \in Models,
        f \in {Undef, VEq(0), VEq(1)} \cup {IdEq(t) : t \in TodoIds \cup {MissingId}},
        op \in {"read", "update", "delete"}}

AfterCheck(req, r) ==
    [call EXCEPT !.phase = "done", !.kind = "check", !.req = req, !.pre = store,
                 !.outcome = IF r.ok THEN "ok" ELSE r.err,
                 !.rejected = r.rejected, !.ops = r.ops]

\* checkPolicyForFilter(model, filter, operation, db) called on its own
CheckCall ==
    /\ call.phase = "idle"
    /\ \E req \in CheckRequests :
          call' = AfterCheck(req, checkPolicyForFilter(req.model, req.filter,
                                                       req.operation, store))
    /\ UNCHANGED <<store, profile, st>>

Next == ReadCall \/ CheckCall \/ WriteValidate \/ WriteExecute \/ WritePostCheck

Spec == Init /\ [][Next]_vars

\* the rows another client may write while the call runs: every row before
\* the call's write, afterwards the rows the transaction has not written
Unlocked ==
    IF call.phase = "postcheck" THEN store \cap call.txView ELSE store

\* a committed write of another client: the field v of a todo is changed
OtherWrite ==
    /\ call.phase \in {"validated", "postcheck"}
    /\ call.others < MaxOther
    /\ \E r \in Unlocked :
          /\ r.model = "Todo"
          /\ store' = (store \ {r}) \cup {[r EXCEPT !.v = 1 - r.v]}
    /\ call' = [call EXCEPT !.others = @ + 1]
    /\ UNCHANGED <<profile, st>>

\* `${transactionId}:create` of another call: cuid() gives each call its own
OtherTag == "tx:other:create"

\* the committed create of another processWrite call: a todo of the list,
\* marked with that call's tag
OtherCreate ==
    /\ call.phase \in {"validated", "postcheck"}
    /\ call.others < MaxOther
    /\ \E v \in Vals :
          store' = store \cup {Row("Todo", -(call.others + 1), v, ListId, UserId, OtherTag)}
    /\ call' = [call EXCEPT !.others = @ + 1]
    /\ UNCHANGED <<profile, st>>

ConcRules == {RuleProfile(RAll, t, RAll) : t \in {RCond, RSplit, RPost}}
                \cup {RuleProfile(RCond, RCond, RAll)}

InitConc ==
    /\ store \in Stores
    /\ \E rules \in ConcRules :
          profile = [rules |-> rules, guard |-> GuardTable(rules)]
    /\ call = IdleCall
    /\ st = IdleSt

NextConc == WriteValidate \/ WriteExecute \/ WritePostCheck \/ OtherWrite

\* processWrite beside the writes of other clients
SpecConc == InitConc /\ [][NextConc]_vars

\* processWrite beside the creates of other calls, under a conditional
\* create guard on Todo
InitMarker ==
    /\ store \in Stores
    /\ profile = [rules |-> RuleProfile(RAll, RCond, RAll),
                  guard |-> GuardTable(RuleProfile(RAll, RCond, RAll))]
    /\ call = IdleCall
    /\ st = IdleSt

NextMarker == WriteValidate \/ WriteExecute \/ WritePostCheck \/ OtherCreate

SpecMarker == InitMarker /\ [][NextMarker]_vars

\* checkPolicyForFilter step by step, beside the writes of other clients.
\* call.clean records whether, at every moment since the first count, every
\* row matching the filter satisfied the guard.
AllSatisfy(req, db) ==
    \A r \in Find(req.model, req.filter, db) :
        LET g == getAuthGuard(req.model, req.operation)
        IN IF g.t = "bool" THEN g.b ELSE Matches(r, g, db)

\* const count = await db[model].count({ where: filter })
CheckCount ==
    /\ call.phase = "idle"
    /\ \E req \in CheckRequests :
          call' = [call EXCEPT !.phase = "counted", !.kind = "check", !.req = req,
                               !.pre = store, !.ops = 1,
                               !.count = Count(req.model, req.filter, store),
                               !.clean = AllSatisfy(req, store)]
    /\ UNCHANGED <<store, profile, st>>

\* another client inserts or deletes a todo between the two counts
OtherRow ==
    /\ call.phase = "counted"
    /\ call.others < MaxOther
    /\ \/ \E r \in store : r.model = "Todo" /\ store' = store \ {r}
       \/ \E v \in Vals :
             store' = store \cup {Row("Todo", FreshId(store), v, ListId, UserId, NoTx)}
    /\ call' = [call EXCEPT !.others = @ + 1,
                            !.clean = @ /\ AllSatisfy(call.req, store')]
    /\ UNCHANGED <<profile, st>>

\* the guarded count and the comparison
CheckGuarded ==
    /\ call.phase = "counted"
    /\ LET guard == getAuthGuard(call.req.model, call.req.operation)
           guardedCount == Count(call.req.model, and(<<call.req.filter, guard>>), store)
       IN call' = [call EXCEPT
                      !.phase = "done", !.ops = 2,
                      !.outcome = IF guardedCount < call.count THEN "denied" ELSE "ok",
                      !.rejected = IF guardedCount < call.count
                                   THEN call.count - guardedCount ELSE 0]
    /\ UNCHANGED <<store, profile, st>>

InitCheck ==
    /\ store \in Stores
    /\ \E rules \in {RuleProfile(RAll, RCond, RAll), RuleProfile(RCond, RDenyCond, RAll)} :
          profile = [rules |-> rules, guard |-> GuardTable(rules)]
    /\ call = IdleCall
    /\ st = IdleSt

NextCheck == CheckCount \/ OtherRow \/ CheckGuarded

SpecCheck == InitCheck /\ [][NextCheck]_vars

\* the same operations over guard tables with missing entries
SpecConfig == InitConfig /\ [][Next]_vars

(***************************************************************************)
(* The policy compiler run on its own: analyzePolicies over rule sets      *)
(***************************************************************************)
StaticOps == {<<"all">>, <<"read">>, <<"update">>, <<"read", "update">>,
              <<"read", "all">>, <<>>}
StaticExprs == {Lit(TRUE), Lit(FALSE), Cmp(FALSE, 1), Cmp(TRUE, 1),
                AndE(Cmp(FALSE, 1), Cmp(TRUE, 1))}
StaticRules == {Rule(k, ops, e) : k \in {"allow", "deny"}, ops \in StaticOps,
                                  e \in StaticExprs}
RuleSets == UNION {[1..n -> StaticRules] : n \in 0..MaxRules}
PolicyOps == {"create", "read", "update", "delete"}

InitStatic ==
    /\ store = {}
    /\ profile = [rules |-> RuleProfile(RAll, RAll, RAll),
                  guard |-> GuardTable(RuleProfile(RAll, RAll, RAll))]
    /\ call = IdleCall
    /\ \E rules \in RuleSets : st = [IdleSt EXCEPT !.rules = rules]

\* toStaticPolicy(operation, allows, denies) of analyzePolicies
Analyze ==
    /\ st.phase = "idle"
    /\ \E op \in PolicyOps :
          st' = [st EXCEPT !.phase = "analyzed", !.op = op,
                           !.res = toStaticPolicy(op, AllowsOf(st.rules),
                                                  DeniesOf(st.rules))]
    /\ UNCHANGED <<store, profile, call>>

\* generateQueryGuardForModel(model): the guard table of the model
Generate ==
    /\ st.phase = "idle"
    /\ st' = [st EXCEPT !.phase = "generated",
                        !.table = generateQueryGuardForModel(st.rules)]
    /\ UNCHANGED <<store, profile, call>>

NextStatic == Analyze \/ Generate

SpecStatic == InitStatic /\ [][NextStatic]_vars

(***************************************************************************)
(* Vocabulary of the properties                                            *)
(***************************************************************************)
\* row satisfies the guard of its model for operation
Sat(row, operation, db) ==
    LET g == getAuthGuard(row.model, operation)
    IN IF g.t = "bool" THEN g.b ELSE Matches(row, g, db)

\* a rule applies to an operation: it names 'all' or lists the operation
Applies(rule, operation) ==
    rule.ops = <<"all">> \/ operation \in Range(rule.ops)

\* every entity of a result tree
RECURSIVE EntitiesOf(_)
EntitiesOf(e) ==
    {e} \cup UNION {UNION {EntitiesOf(x) : x \in Range(e.rels[i].items)} :
                        i \in DOMAIN e.rels}
AllEntities(result) == UNION {EntitiesOf(result[i]) : i \in DOMAIN result}

\* every operation of a write payload, with the model it targets
RECURSIVE OpsIn(_, _)
OpsIn(model, node) ==
    UNION {{[model |-> model, op |-> node.op, item |-> node.items[i]]}
           \cup UNION {OpsIn(resolveField(model, k.field).type, k.node) :
                          k \in Range(node.items[i].kids)} :
           i \in DOMAIN node.items}

\* the policy operation a payload operation is checked for
GuardOps(op) ==
    CASE op \in {"create", "connectOrCreate"} -> {"create"}
      [] op \in {"update", "updateMany"} -> {"update"}
      [] op = "upsert" -> {"create", "update"}
      [] OTHER -> {"delete"}

ReadDone == call.phase = "done" /\ call.kind = "read"
WriteDone == call.phase = "done" /\ call.kind = "write"
RolledBack == call.outcome = "denied" /\ store = call.pre

(***************************************************************************)
(* C1                                                                      *)
(***************************************************************************)
\* the rows the payload of the call creates: every create, and every upsert
\* or connectOrCreate whose target does not exist
CreatedBy(req, db) ==
    {[model |-> o.model,
      v |-> IF o.op \in {"upsert", "connectOrCreate"} THEN o.item.cv ELSE o.item.v] :
        o \in {x \in OpsIn(req.model, req.node) :
                  \/ x.op = "create"
                  \/ x.op \in {"upsert", "connectOrCreate"}
                     /\ Find(x.model, x.item.where, db) = {}}}

\* a created row that fails the conditional create guard of its model
FailsCreateGuard(c) ==
    /\ profile.guard[c.model]["create"].k = "fn"
    /\ ~Sat(Row(c.model, 0, c.v, 0, 0, NoTx), "create", {})

\* C1: a processWrite call that creates a row (root, batch element or nested)
\* failing its model's conditional create guard ends with a policy denial and
\* the store is as it was before the call: no row the call created or
\* modified remains, the rows that satisfied the guard included.
C1_CreateGuardRollback ==
    (WriteDone /\ \E c \in CreatedBy(call.req, call.pre) : FailsCreateGuard(c))
        => RolledBack

\* a batch with one row satisfying the guard and one failing it was written
\* in the transaction and then denied by the post-check
C1_Witness ==
    /\ WriteDone /\ call.txn /\ call.writes = 1 /\ RolledBack
    /\ \E c \in CreatedBy(call.req, call.pre) : FailsCreateGuard(c)
    /\ \E c \in CreatedBy(call.req, call.pre) :
          profile.guard[c.model]["create"].k = "fn" /\ ~FailsCreateGuard(c)

(***************************************************************************)
(* C2, C3, C4, C5: reads                                                   *)
(***************************************************************************)
ReadOk == ReadDone /\ call.outcome = "ok"

\* the stored row an entity of a result was read from
RowOf(e) == CurrentRow(e.rid, store)

\* C2: every entity anywhere in a successful readWithCheck result (root rows,
\* elements of to-many relations, to-one related rows, at any depth)
\* satisfies the read guard of its own model.
C2_ResultSatisfiesReadGuard ==
    ReadOk => \A e \in AllEntities(call.result) : Sat(RowOf(e), "read", store)

\* C3: a successful readWithCheck result never contains a to-one related row
\* that fails the related model's read guard (such a read fails with a policy
\* denial), and never omits a to-one relation whose row exists.
C3_ToOneReadDenial ==
    ReadOk =>
        \A e \in AllEntities(call.result) : \A i \in DOMAIN e.rels :
            ~resolveField(e.model, e.rels[i].field).isArray =>
                /\ {x.rid : x \in Range(e.rels[i].items)}
                      = {r.id : r \in Related(RowOf(e), e.rels[i].field, store)}
                /\ \A x \in Range(e.rels[i].items) : Sat(RowOf(x), "read", store)

\* the rows of the model that satisfy the caller's top-level filter and the
\* read guard of the model
GivenArgs(req) == IF req.args = NoArgs THEN EmptyArgs ELSE req.args
Readable(req, db) ==
    {r \in db : /\ r.model = req.model
                /\ Matches(r, GivenArgs(req).where, db)
                /\ Sat(r, "read", db)}

\* C4: readWithCheck returns exactly the rows of the model that satisfy both
\* the caller's top-level filter and the read guard: all rows matching the
\* filter under a guard of true, none under a guard of false, and the rows
\* matching the conjunction under a conditional guard.
C4_ReadReturnsGuardedRows ==
    ReadOk =>
        /\ {e.rid : e \in Range(call.result)} = {r.id : r \in Readable(call.req, store)}
        /\ Len(call.result) = Cardinality(Readable(call.req, store))
        /\ \A e \in Range(call.result) : e.model = call.req.model /\ e.v = RowOf(e).v

\* a conditional guard kept some of the rows matching the caller's filter
\* and left others out
C4_Witness ==
    /\ ReadOk
    /\ profile.guard[call.req.model]["read"].k = "fn"
    /\ call.result # <<>>
    /\ Len(call.result) < Count(call.req.model, GivenArgs(call.req).where, store)

\* a to-one relation is projected somewhere in the args of a read
RECURSIVE HasToOne(_, _)
HasToOne(model, args) ==
    \E i \in DOMAIN args.rels :
        \/ ~resolveField(model, args.rels[i].field).isArray
        \/ HasToOne(resolveField(model, args.rels[i].field).type, args.rels[i].sub)

\* the elements of to-many relation i of entity e, and the related rows that
\* satisfy the read guard
ItemIds(e, i) == {x.rid : x \in Range(e.rels[i].items)}
Permitted(e, i) ==
    {r \in Related(RowOf(e), e.rels[i].field, store) : Sat(r, "read", store)}

\* C5: where a read projects a to-many relation, the result holds for each
\* parent exactly the related rows that satisfy the related model's read
\* guard (k of n), and the trimming does not make the read fail.
C5_ReadTrimming ==
    /\ ReadOk =>
          \A e \in AllEntities(call.result) : \A i \in DOMAIN e.rels :
              resolveField(e.model, e.rels[i].field).isArray =>
                  /\ ItemIds(e, i) = {r.id : r \in Permitted(e, i)}
                  /\ Len(e.rels[i].items) = Cardinality(Permitted(e, i))
    /\ (ReadDone /\ ~HasToOne(call.req.model, GivenArgs(call.req))) => call.outcome = "ok"

\* k of n with 0 < k < n: a parent came back with some of its related rows
\* trimmed and some kept
C5_Witness ==
    /\ ReadOk
    /\ \E e \in AllEntities(call.result) : \E i \in DOMAIN e.rels :
          /\ resolveField(e.model, e.rels[i].field).isArray
          /\ e.rels[i].items # <<>>
          /\ Len(e.rels[i].items)
                < Cardinality(Related(RowOf(e), e.rels[i].field, store))

(***************************************************************************)
(* C6: a guard table entry of constant false                               *)
(***************************************************************************)
FalseEntry(model, operation) == profile.guard[model][operation] = BoolEntry(FALSE)

\* the payload operations of the call that are checked against a false entry
DeniedOps(req) ==
    {o \in OpsIn(req.model, req.node) :
        \E operation \in GuardOps(o.op) : FalseEntry(o.model, operation)}

\* the root operation of the call is checked against a false entry
RootDenied(req) ==
    \E operation \in GuardOps(req.node.op) : FalseEntry(req.model, operation)

\* C6 as stated: when the guard table entry of (M, op) is constant false,
\* every request for (M, op) through readWithCheck or processWrite fails with
\* a policy denial and no store operation is issued before the failure.
C6_FalseGuardDeniesBeforeStore ==
    /\ (ReadDone /\ FalseEntry(call.req.model, "read"))
          => (call.outcome = "denied" /\ call.ops = 0)
    /\ (WriteDone /\ DeniedOps(call.req) # {})
          => (call.outcome = "denied" /\ call.ops = 0)

\* C6 as amended: a processWrite whose root operation is checked against a
\* false entry is denied before any store operation; one that reaches a
\* nested operation checked against a false entry is denied before any write
\* (counts of earlier operations may have been issued); a readWithCheck on a
\* model whose read entry is false issues its find and returns no rows.
C6_FalseGuardAmended ==
    /\ (call.kind = "write" /\ RootDenied(call.req))
          => (call.phase = "done" /\ RolledBack /\ call.ops = 0 /\ call.writes = 0)
    /\ (call.kind = "write" /\ DeniedOps(call.req) # {})
          => (call.phase = "done" /\ RolledBack /\ call.writes = 0)
    /\ (ReadDone /\ FalseEntry(call.req.model, "read"))
          => (call.outcome = "ok" /\ call.result = <<>> /\ call.ops = 1)

\* a nested operation was denied by a false entry after the count-comparison
\* of the root operation had been issued
C6_Witness ==
    /\ WriteDone /\ RolledBack /\ call.writes = 0 /\ call.ops > 0
    /\ DeniedOps(call.req) # {} /\ ~RootDenied(call.req)

(***************************************************************************)
(* C7: the count-comparison check                                          *)
(***************************************************************************)
CheckDone == call.phase = "done" /\ call.kind = "check"
Candidates(req, db) == {r \in db : r.model = req.model /\ Matches(r, req.filter, db)}
Passing(req, db) == {r \in Candidates(req, db) : Sat(r, req.operation, db)}

\* C7: checkPolicyForFilter passes iff every row matching the filter F
\* satisfies the guard (count(F) = count(F AND guard)); otherwise it raises a
\* policy denial whose rejected count is count(F) - count(F AND guard).
C7_CountComparison ==
    CheckDone =>
        /\ call.outcome = "ok" <=> Passing(call.req, store) = Candidates(call.req, store)
        /\ call.outcome \in {"ok", "denied"}
        /\ call.outcome = "denied" =>
              call.rejected = Cardinality(Candidates(call.req, store))
                                - Cardinality(Passing(call.req, store))

\* a filter matching rows of which some satisfy the guard and some do not
C7_Witness ==
    /\ CheckDone /\ call.outcome = "denied" /\ call.rejected > 0
    /\ Passing(call.req, store) # {}

(***************************************************************************)
(* C8: an update rule P && Q(future())                                     *)
(***************************************************************************)
\* the update rule of the model is the single allow P && Q with P: v == 1 on
\* the row before the mutation and Q: future().v == 1 on the row after it
SplitModel(model) == profile.rules[model] = RSplit
SplitP(row) == row.v = 1
SplitQ(row, data) == (IF data = Keep THEN row.v ELSE data) = 1

\* the updates of single rows of such a model in the payload of the call,
\* each with the row as it is before the call
SplitUpdates(req, db) ==
    {[row |-> CurrentRow(o.item.where.id, db), data |-> o.item.v] :
        o \in {x \in OpsIn(req.model, req.node) :
                  /\ x.op \in {"update", "upsert"}
                  /\ SplitModel(x.model)
                  /\ x.item.where.t = "id"
                  /\ Find(x.model, x.item.where, db) # {}}}

\* C8: under an update rule P && Q(future()), an update of a row on which P
\* is false is denied during validation, before any write, even when Q would
\* hold after the mutation; an update of a row on which P holds but whose
\* mutated row fails Q is written, denied at the post-check and rolled back.
C8_UpdateSplit ==
    /\ (call.kind = "write" /\ \E u \in SplitUpdates(call.req, call.pre) : ~SplitP(u.row))
          => (call.phase = "done" /\ RolledBack /\ call.writes = 0)
    /\ (/\ WriteDone
        /\ \A u \in SplitUpdates(call.req, call.pre) : SplitP(u.row)
        /\ \E w \in SplitUpdates(call.req, call.pre) : ~SplitQ(w.row, w.data))
          => (RolledBack /\ call.writes = 1 /\ call.txn)

\* P held, the write was made in the transaction, Q failed on the mutated
\* row and the call was rolled back
C8_Witness ==
    /\ WriteDone /\ RolledBack /\ call.writes = 1
    /\ \E u \in SplitUpdates(call.req, call.pre) : SplitP(u.row) /\ ~SplitQ(u.row, u.data)

\* P failed although Q would have held: denied with no write issued
C8_WitnessPre ==
    /\ WriteDone /\ RolledBack /\ call.writes = 0
    /\ \E u \in SplitUpdates(call.req, call.pre) : ~SplitP(u.row) /\ SplitQ(u.row, u.data)

(***************************************************************************)
(* C9: a constant-true deny                                                *)
(***************************************************************************)
TrueDeny(model, operation) ==
    \E rule \in Range(profile.rules[model]) :
        rule.kind = "deny" /\ IsLiteralTrue(rule) /\ Applies(rule, operation)

\* the updates, updateManys and upserts of the payload on a model with a
\* constant-true deny for update
DenyUpdates(req) ==
    {o \in OpsIn(req.model, req.node) :
        o.op \in {"update", "updateMany", "upsert"} /\ TrueDeny(o.model, "update")}

Analyzed == st.phase = "analyzed"
AppliedAllows == {r \in Range(st.rules) : r.kind = "allow" /\ Applies(r, st.op)}
AppliedDenies == {r \in Range(st.rules) : r.kind = "deny" /\ Applies(r, st.op)}
NoTrueDeny == \A r \in AppliedDenies : ~IsLiteralTrue(r)

C9_StaticDenyFirst ==
    (Analyzed /\ ~NoTrueDeny) => st.res = "false"

(***************************************************************************)
(* C11: the state machine of one processWrite call                         *)
(***************************************************************************)
FromTo(a, b) == call.phase = a /\ call'.phase = b

\* the traversal of the payload of the call completes without error
TraversalPasses(req, db) == Visit(req.model, req.node, db).acc.err = "none"

\* C11: a processWrite call goes Validating -> {Denied | Executing ->
\* PostChecking -> {Committed | RolledBack}}: the write action is invoked at
\* most once and only after the whole traversal has completed without error,
\* the post-checks run only after the write action has returned, and after a
\* denial the call makes no further step: no write, no retry.
C11_WriteStateMachine ==
    [][call'.kind = "write" =>
        \/ /\ FromTo("idle", "validated")
           /\ TraversalPasses(call'.req, store)
           /\ call'.writes = 0 /\ call'.outcome = "none" /\ store' = store
        \/ /\ FromTo("idle", "done")
           /\ ~TraversalPasses(call'.req, store)
           /\ call'.writes = 0 /\ call'.outcome \in {"denied", "unknown"}
           /\ store' = store
        \/ /\ FromTo("validated", "postcheck")
           /\ call.writes = 0 /\ call'.writes = 1
           /\ call'.txn /\ call'.outcome = "none" /\ store' = store
        \/ /\ FromTo("validated", "done")
           /\ call.writes = 0 /\ call'.writes = 1
           /\ \/ ~call'.txn /\ call'.outcome = "ok"
              \/ call'.outcome = "notfound" /\ store' = store
        \/ /\ FromTo("postcheck", "done")
           /\ call'.writes = 1
           /\ \/ call'.outcome = "ok"
              \/ call'.outcome = "denied" /\ store' = store
    ]_vars

\* a call that went through every stage: validated, written in the
\* transaction, post-checked, denied and rolled back
C11_Witness ==
    /\ WriteDone /\ call.txn /\ call.writes = 1 /\ call.outcome = "denied"
    /\ call.txView # call.txBase /\ store = call.pre

(***************************************************************************)
(* C12: post-update enforcement                                            *)
(***************************************************************************)
\* the row with the id of the snapshot, as the transaction wrote it,
\* satisfies the post-update guard evaluated with the snapshot as preValue
PostUpdateHolds(pre, db) ==
    LET g == getAuthGuardPre(pre.model, "postUpdate", pre)
    IN \E r \in db : /\ r.model = pre.model /\ r.id = pre.id
                     /\ (IF g.t = "bool" THEN g.b ELSE Matches(r, g, db))

\* C12: for every row snapshotted during validation, the row with that id
\* after the write must satisfy the post-update guard evaluated with the
\* snapshot as preValue: the call commits only if all do, and if one does not
\* the call fails with a policy denial and nothing it wrote (nested writes
\* included) stays in the store.
C12_PostUpdateEnforced ==
    [][(call.phase = "postcheck" /\ call'.phase = "done") =>
        /\ call'.outcome = "ok" =>
              \A pre \in call.snaps : PostUpdateHolds(pre, store')
        /\ (\E pre \in call.snaps : ~PostUpdateHolds(pre, call.txView)) =>
              (call'.outcome = "denied" /\ store' = call.pre)
    ]_vars

\* a snapshotted row was written, failed the post-update guard and the call
\* was rolled back
C12_Witness ==
    /\ WriteDone /\ RolledBack /\ call.writes = 1
    /\ \E pre \in call.snaps :
          /\ ~PostUpdateHolds(pre, call.txView)
          /\ CurrentRow(pre.id, call.txView) # CurrentRow(pre.id, store)

(***************************************************************************)
(* The guard function generator run on its own over allow and deny         *)
(* expressions                                                             *)
(***************************************************************************)
GuardExprs == {Lit(TRUE), Lit(FALSE), Cmp(FALSE, 0), Cmp(FALSE, 1)}
ExprSeqs == UNION {[1..n -> GuardExprs] : n \in 0..MaxRules}

InitGuard ==
    /\ store = {}
    /\ profile = [rules |-> RuleProfile(RAll, RAll, RAll),
                  guard |-> GuardTable(RuleProfile(RAll, RAll, RAll))]
    /\ call = IdleCall
    /\ \E allows \in ExprSeqs : \E denies \in ExprSeqs :
          st = [IdleSt EXCEPT !.allows = allows, !.denies = denies]

\* generateQueryGuardFunction(sourceFile, model, kind, allows, denies) and
\* the guard object the generated function returns
WriteGuard ==
    /\ st.phase = "idle"
    /\ \E kind \in ALL_OPERATION_KINDS :
          st' = [st EXCEPT !.phase = "written", !.op = kind,
                           !.guard = generateQueryGuardFunction(kind, st.allows,
                                                                st.denies, NoPreValue)]
    /\ UNCHANGED <<store, profile, call>>

NextGuard == WriteGuard

SpecGuard == InitGuard /\ [][NextGuard]_vars

(***************************************************************************)
(* C13: guard combination                                                  *)
(***************************************************************************)
\* a rule expression holds of a row
RECURSIVE Holds(_, _)
Holds(expr, row) ==
    CASE expr.t = "lit" -> expr.b
      [] expr.t = "cmp" -> row.v = expr.val
      [] expr.t = "and" -> Holds(expr.l, row) /\ Holds(expr.r, row)
      [] expr.t = "or" -> Holds(expr.l, row) \/ Holds(expr.r, row)
      [] expr.t = "not" -> ~Holds(expr.e, row)

ProbeRows == {Row("Todo", 1, v, 0, 0, NoTx) : v \in Vals}
NoDenyHolds(row) == \A i \in DOMAIN st.denies : ~Holds(st.denies[i], row)
SomeAllowHolds(row) == \E j \in DOMAIN st.allows : Holds(st.allows[j], row)

\* C13: the generated guard over denies D1..Dm and allows A1..An accepts a
\* row iff no Di holds and some Aj holds (m > 0, n > 0), iff no Di holds
\* (n = 0 < m), iff some Aj holds (m = 0 < n), and accepts no row when
\* m = 0 and n = 0.
C13_GuardCombination ==
    st.phase = "written" =>
        \A row \in ProbeRows :
            Matches(row, st.guard, {})
                <=> IF Len(st.denies) > 0 /\ Len(st.allows) > 0
                    THEN NoDenyHolds(row) /\ SomeAllowHolds(row)
                    ELSE IF Len(st.denies) > 0 THEN NoDenyHolds(row)
                    ELSE IF Len(st.allows) > 0 THEN SomeAllowHolds(row)
                    ELSE FALSE

\* several denies and several allows, and a guard that accepts one row and
\* rejects another
C13_Witness ==
    /\ st.phase = "written" /\ Len(st.denies) > 1 /\ Len(st.allows) > 1
    /\ \E row \in ProbeRows : Matches(row, st.guard, {})
    /\ \E row \in ProbeRows : ~Matches(row, st.guard, {}) /\ SomeAllowHolds(row)

(***************************************************************************)
(* C14: the update policy without a before-mutation allow                  *)
(***************************************************************************)
Generated == st.phase = "generated"

\* the expression has a leaf without (with) a future() reference
RECURSIVE HasLeaf(_, _)
HasLeaf(expr, future) ==
    CASE expr.t = "lit" -> ~future
      [] expr.t = "cmp" -> expr.fut = future
      [] expr.t = "not" -> HasLeaf(expr.e, future)
      [] OTHER -> HasLeaf(expr.l, future) \/ HasLeaf(expr.r, future)

UpdateAllows ==
    {r \in Range(st.rules) : r.kind = "allow" /\ r.ops # <<>>
                             /\ {"update", "all"} \cap Range(r.ops) # {}}
StaticInconclusive == analyzePolicies(st.rules)["update"] = "undefined"
NoPreSideAllow == \A r \in UpdateAllows : ~HasLeaf(r.expr, FALSE)
SomePostSideAllow == \E r \in UpdateAllows : HasLeaf(r.expr, TRUE)

\* C14: when the static analysis of update is inconclusive and the split
\* leaves no allow expression on the before-mutation side, the update entry
\* of the guard table is constant true if an allow expression remains on the
\* post-update side and constant false if none does.
C14_UpdateWithoutPreAllow ==
    (Generated /\ StaticInconclusive /\ NoPreSideAllow) =>
        st.table["update"] = BoolEntry(SomePostSideAllow)

\* every update allow speaks of future() only, beside an update deny
C14_Witness ==
    /\ Generated /\ StaticInconclusive /\ NoPreSideAllow /\ SomePostSideAllow
    /\ UpdateAllows # {}
    /\ st.table["update"] = BoolEntry(TRUE)
    /\ st.table["postUpdate"].k = "fn"

\* the constant-false branch needs an inconclusive analysis with no allow
\* expression on either side, which no rule set produces
C14_FalseBranchDead ==
    (Generated /\ StaticInconclusive) => (~NoPreSideAllow \/ SomePostSideAllow)

(***************************************************************************)
(* C20: what processCreate does to a visited create                        *)
(***************************************************************************)
CreateOps == {"create", "connectOrCreate", "upsert"}

\* every create of a payload (list elements, the create part of a
\* connectOrCreate or an upsert) beside the same element of the processed args
RECURSIVE CreatePairs(_, _, _)
CreatePairs(model, node, processed) ==
    UNION {(IF node.op \in CreateOps
            THEN {[model |-> model, op |-> node.op, before |-> node.items[i],
                   after |-> processed.items[i]]}
            ELSE {})
           \cup UNION {CreatePairs(resolveField(model, node.items[i].kids[j].field).type,
                                   node.items[i].kids[j].node,
                                   processed.items[i].kids[j].node) :
                          j \in DOMAIN node.items[i].kids} :
           i \in DOMAIN node.items}

CallCreates == CreatePairs(call.req.model, call.req.node, call.args)
TraversalPassed == call.phase \in {"validated", "postcheck"} \/ call.writes = 1
SameCreateArgs(p) ==
    /\ p.after.tx = p.before.tx /\ p.after.v = p.before.v
    /\ p.after.cv = p.before.cv /\ p.after.where = p.before.where

\* C20: for every create the traversal visits: a false create guard fails the
\* call at once (no write; a policy denial with no store operation when the
\* create is the root operation); a true guard leaves the create's args and
\* the ledger as they were; a conditional guard writes the transaction
\* marker into the create's args and adds the model to the created set.
C20_ProcessCreate ==
    call.kind = "write" =>
        /\ \A p \in CallCreates :
              LET entry == profile.guard[p.model]["create"]
              IN /\ entry = BoolEntry(FALSE) =>
                       /\ call.phase = "done" /\ call.writes = 0 /\ store = call.pre
                       /\ call.outcome \in {"denied", "unknown"}
                       /\ SameCreateArgs(p)
                 /\ entry = BoolEntry(TRUE) =>
                       (SameCreateArgs(p) /\ p.model \notin call.created)
                 /\ (entry.k = "fn" /\ TraversalPassed) =>
                       /\ p.after = [p.before EXCEPT !.tx = TxTag, !.kids = p.after.kids]
                       /\ p.model \in call.created
                 /\ p.after.tx = TxTag => (entry.k = "fn" /\ p.model \in call.created)
        /\ (call.req.node.op \in CreateOps
            /\ profile.guard[call.req.model]["create"] = BoolEntry(FALSE))
              => (call.outcome = "denied" /\ call.ops = 0)
        /\ \A m \in call.created :
              \E p \in CallCreates : p.model = m /\ p.after.tx = TxTag

\* a list under a true create guard created with todos under a conditional
\* one: the list's args are untouched, every todo carries the marker
C20_Witness ==
    /\ call.kind = "write" /\ call.phase = "validated" /\ call.created = {"Todo"}
    /\ \E p \in CallCreates :
          p.model = "List" /\ profile.guard["List"]["create"] = BoolEntry(TRUE)
          /\ SameCreateArgs(p)
    /\ \E p \in CallCreates : p.model = "Todo" /\ p.after.tx = TxTag
    /\ Cardinality({p \in CallCreates : p.model = "Todo"}) > 1

\* the create part of a connectOrCreate and of an upsert are marked alike
C20_EmbeddedCreates ==
    ~(/\ call.kind = "write" /\ TraversalPassed
      /\ \E p \in CallCreates : p.op \in {"connectOrCreate", "upsert"}
                                /\ p.after.tx = TxTag /\ p.before.tx = NoTx)

(***************************************************************************)
(* C19: direct write or transaction                                        *)
(***************************************************************************)
NothingRecorded == call.created = {} /\ call.updModels = {}
WriteIssued == call.kind = "write" /\ call.writes > 0

\* C19: the write runs directly on the client iff the traversal recorded no
\* model for the create post-check and none for the post-update check; then
\* the call ends with the write and no post-check follows. Otherwise the write
\* and every post-check run in one transaction: nothing of the write is in
\* the store while the post-checks are pending, and the write is issued once.
C19_DirectOrTransaction ==
    /\ WriteIssued => /\ call.writes = 1
                      /\ call.txn <=> ~NothingRecorded
                      /\ call.snaps # {} => call.txn
    /\ (WriteIssued /\ ~call.txn) =>
          /\ call.phase = "done"
          /\ store = writeAction(call.req.model, call.args, call.pre).db
    /\ (call.kind = "write" /\ call.phase = "postcheck") =>
          (call.txn /\ call.writes = 1 /\ store = call.pre
           /\ call.txView = writeAction(call.req.model, call.args, call.pre).db)
    /\ (call.kind = "write" /\ call.phase = "validated") => call.writes = 0

\* a write that passed its count-comparison checks, recorded nothing and
\* changed the store directly
C19_Witness ==
    /\ WriteDone /\ ~call.txn /\ call.writes = 1 /\ NothingRecorded
    /\ call.outcome = "ok" /\ store # call.pre /\ call.ops > 1

\* an update that recorded only a model for the post-update check went
\* through the transaction
C19_UpdateOnlyTransaction ==
    ~(WriteDone /\ call.txn /\ call.created = {} /\ call.updModels # {}
      /\ call.outcome = "ok" /\ store # call.pre)

(***************************************************************************)
(* C18: the post-checks are awaited jointly                                *)
(***************************************************************************)
CreateCheckPasses(model, db) == checkPolicyForFilter(model, TxEq(TxTag), "create", db).ok
UpdateCheckPasses(pre, db) == checkPostUpdate(pre.model, pre.id, db, pre)
AllChecksPass(db) ==
    /\ \A model \in call.created : CreateCheckPasses(model, db)
    /\ \A pre \in call.snaps : UpdateCheckPasses(pre, db)
FailingChecks(db) ==
    {CreateCheck(model) : model \in {m \in call.created : ~CreateCheckPasses(m, db)}}
    \cup {UpdateCheck(pre) : pre \in {x \in call.snaps : ~UpdateCheckPasses(x, db)}}
PostChecked == WriteDone /\ call.txn /\ call.outcome \in {"ok", "denied"}

\* C18: the create check of every created model and the post-update check of
\* every snapshotted row are awaited jointly: whatever the order in which they
\* settle, the transaction commits iff all of them pass, and fails, rolling
\* back, iff one of them fails.
C18_JointPostChecks ==
    /\ (call.kind = "write" /\ call.phase = "postcheck") =>
          \A createOrder \in Orders(call.created) : \A updateOrder \in Orders(call.snaps) :
             PostChecks(createOrder, updateOrder, call.txView).ok
                <=> AllChecksPass(call.txView)
    /\ PostChecked =>
          /\ call.outcome = "ok" <=> AllChecksPass(call.txView)
          /\ call.outcome = "ok" => (store = call.txView /\ call.failedBy = NoCheck)
          /\ call.outcome = "denied" =>
                (store = call.pre /\ call.failedBy \in FailingChecks(call.txView))

\* two post-update checks of one call, one passing and one failing: denied
C18_Witness ==
    /\ PostChecked /\ call.outcome = "denied" /\ store = call.pre
    /\ call.txView # call.pre
    /\ \E pre \in call.snaps : UpdateCheckPasses(pre, call.txView)
    /\ \E pre \in call.snaps : ~UpdateCheckPasses(pre, call.txView)

(***************************************************************************)
(* C15: guard table entries that are boolean or missing                    *)
(***************************************************************************)
HasEntry(model, operation) ==
    model \in DOMAIN profile.guard /\ operation \in DOMAIN profile.guard[model]

\* the entry getAuthGuard is first asked for by the root operation of a write
FirstGuard(op) ==
    CASE op \in {"create", "connectOrCreate", "upsert"} -> "create"
      [] op \in {"update", "updateMany"} -> "update"
      [] OTHER -> "delete"

\* every entry the callbacks of a payload operation ask for
EntriesOf(op) ==
    GuardOps(op) \cup (IF op \in {"update", "updateMany", "upsert"}
                       THEN {"postUpdate"} ELSE {})

NoGuardError == call.phase = "done" /\ call.outcome = "noguard"

\* C15: getAuthGuard returns a boolean table entry as it is, and fails with
\* the unknown error (not a policy denial) when the model has no guard entry
\* or the (model, operation) entry is missing; the read, check or write that
\* asked for the guard ends with that error, and a write ends before its
\* write action is executed.
C15_MissingGuardEntry ==
    /\ \A model \in Models : \A operation \in ALL_OPERATION_KINDS :
          /\ (HasEntry(model, operation) /\ profile.guard[model][operation].k = "bool")
                => getAuthGuard(model, operation)
                      = BoolC(profile.guard[model][operation].b)
          /\ HasEntry(model, operation) <=> getAuthGuard(model, operation) # Thrown
    /\ call.outcome = "noguard" =>
          /\ call.phase = "done" /\ call.writes = 0 /\ ~call.txn
          /\ store = call.pre /\ call.result = <<>>
    /\ (call.kind = "read" /\ ~HasEntry(call.req.model, "read"))
          => (NoGuardError /\ call.ops = 0)
    /\ (call.kind = "check" /\ ~HasEntry(call.req.model, call.req.operation))
          => (NoGuardError /\ call.ops = 1)
    /\ (call.kind = "write" /\ ~HasEntry(call.req.model, FirstGuard(call.req.node.op)))
          => (NoGuardError /\ call.ops = 0)
    /\ (call.kind = "write"
        /\ \E o \in OpsIn(call.req.model, call.req.node) :
              \E operation \in EntriesOf(o.op) : ~HasEntry(o.model, operation))
          => (call.phase = "done" /\ call.writes = 0 /\ call.outcome # "ok"
              /\ store = call.pre)

\* a write whose root operation passed its checks against the store and
\* whose nested operation found no guard entry
C15_Witness ==
    /\ call.kind = "write" /\ NoGuardError /\ call.ops > 0 /\ call.writes = 0
    /\ HasEntry(call.req.model, FirstGuard(call.req.node.op))
    /\ store = call.pre

\* a read whose to-one relation has no read entry fails after its fetch
C15_ReadAfterFetch ==
    ~(call.kind = "read" /\ NoGuardError /\ call.ops > 0)

C16_SuccessTouched ==
    ~(/\ ReadDone /\ call.outcome = "ok" /\ call.req.args # NoArgs
      /\ call.args.where # call.req.args.where
      /\ call.args.rels # call.req.args.rels)
C16_NoArgsRead ==
    ~(ReadDone /\ call.req.args = NoArgs /\ call.args # EmptyArgs /\ call.outcome = "ok")

(***************************************************************************)
(* C17: the write and its post-checks beside other writers                 *)
(***************************************************************************)
OwnWrite == writeAction(call.req.model, call.args, call.txBase).db

C17_OtherUnobserved ==
    ~(/\ WriteDone /\ call.txn /\ call.outcome = "denied" /\ call.others > 0
      /\ AllChecksPass(Commit(store, call.txBase, call.txView)))

(***************************************************************************)
(* C21: the count-comparison check of a single update or delete            *)
(***************************************************************************)
\* every update, upsert and delete of a payload with the rows it targets in
\* db: the rows of its model that match its where, among all rows for the
\* root operation and among the rows related to a targeted parent below it
RECURSIVE SingleOps(_, _, _, _)
SingleOps(model, node, candidates, db) ==
    UNION {LET targets == {r \in candidates : Matches(r, node.items[i].where, db)}
           IN (IF node.op \in {"update", "upsert", "delete"}
               THEN {[model |-> model, op |-> node.op, targets |-> targets]}
               ELSE {})
              \cup UNION {SingleOps(resolveField(model, k.field).type, k.node,
                                    IF node.op = "update"
                                    THEN UNION {Related(p, k.field, db) : p \in targets}
                                    ELSE {},
                                    db) :
                             k \in Range(node.items[i].kids)} :
           i \in DOMAIN node.items}

CallSingleOps ==
    SingleOps(call.req.model, call.req.node,
              {r \in call.pre : r.model = call.req.model}, call.pre)

SingleGuard(op) == IF op = "delete" THEN "delete" ELSE "update"

\* an update or delete under a conditional guard one of whose targeted rows
\* fails the guard in the store the call was validated on
FailsSingleGuard(o) ==
    /\ profile.guard[o.model][SingleGuard(o.op)].k = "fn"
    /\ \E r \in o.targets : ~Sat(r, SingleGuard(o.op), call.pre)

\* every relation the payload goes through has a back-link in the metadata
RECURSIVE BackLinked(_, _)
BackLinked(model, node) ==
    \A i \in DOMAIN node.items : \A j \in DOMAIN node.items[i].kids :
        LET fieldInfo == resolveField(model, node.items[i].kids[j].field)
        IN /\ fieldInfo.backLink # ""
           /\ BackLinked(fieldInfo.type, node.items[i].kids[j].node)

\* C21: a write whose payload has an update, an upsert with an existing
\* target, or a delete (root or nested) under a conditional guard, one of
\* whose targeted rows fails the guard, ends with a policy denial; the write
\* action is not invoked and the store is unchanged. (The relations of the
\* payload have back-links: without one the call ends as C36 states.)
C21_SingleUpdateDeleteChecked ==
    (/\ call.kind = "write" /\ BackLinked(call.req.model, call.req.node)
     /\ \E o \in CallSingleOps : FailsSingleGuard(o)) =>
        /\ call.phase = "done" /\ call.outcome = "denied"
        /\ call.writes = 0 /\ ~call.txn /\ store = call.pre

\* a nested to-one update denied by the count-comparison over the reversed
\* filter, after counts had been issued
C21_Witness ==
    /\ WriteDone /\ call.outcome = "denied" /\ call.writes = 0 /\ call.ops > 0
    /\ call.rejected > 0
    /\ \E o \in CallSingleOps : FailsSingleGuard(o) /\ o.model # call.req.model

(***************************************************************************)
(* buildReversedQuery run on its own over nesting paths                    *)
(***************************************************************************)
FieldNames == {"todos", "list", "owner"}
PathWheres == {Undef, IdEq(1), VEq(1)}

\* stores with a second list, so that the todos of a list are not all todos
OtherListId == ListId + 1
PathStores ==
    {{Row("User", UserId, uv, 0, 0, NoTx), Row("List", ListId, lv, 0, 0, NoTx),
      Row("List", OtherListId, 0, 0, 0, NoTx)}
        \cup {Row("Todo", t, tv[t], tl[t], UserId, NoTx) : t \in TodoIds} :
     uv \in Vals, lv \in Vals, tv \in [TodoIds -> Vals],
     tl \in [TodoIds -> {ListId, OtherListId}]}

\* the model reached from root along the first n relation fields
RECURSIVE ModelAt(_, _, _)
ModelAt(root, fields, n) ==
    IF n = 0 THEN root
    ELSE resolveField(ModelAt(root, fields, n - 1), fields[n]).type

\* context.nestingPath: the root segment (no field) and one segment per
\* relation field followed, each with the where found at that level
NestingPath(root, fields, wheres) ==
    [i \in DOMAIN wheres |->
        [field |-> IF i = 1 THEN NoField
                   ELSE resolveField(ModelAt(root, fields, i - 2), fields[i - 1]),
         where |-> wheres[i]]]

PathInputs ==
    UNION {{[root |-> root, fields |-> fields, wheres |-> wheres] :
              root \in Models, fields \in [1..(n - 1) -> FieldNames],
              wheres \in [1..n -> PathWheres]} : n \in 1..MaxDepth}

ValidPaths ==
    {p \in PathInputs : \A i \in DOMAIN p.fields : ModelAt(p.root, p.fields, i) # ""}

InitPath ==
    /\ store \in PathStores
    /\ profile = [rules |-> RuleProfile(RAll, RAll, RAll),
                  guard |-> GuardTable(RuleProfile(RAll, RAll, RAll))]
    /\ call = IdleCall
    /\ \E p \in ValidPaths :
          st = [IdleSt EXCEPT !.rules = p,
                              !.path = NestingPath(p.root, p.fields, p.wheres)]

Reversed(r) ==
    st' = [st EXCEPT !.phase = IF r.err THEN "failed" ELSE "reversed",
                     !.guard = r.q, !.pathAfter = r.path]

\* buildReversedQuery(context)
Reverse ==
    /\ st.phase = "idle"
    /\ Reversed(buildReversedQuery([field |-> st.path[Len(st.path)].field,
                                    nestingPath |-> st.path]))
    /\ UNCHANGED <<store, profile, call>>

NextPath == Reverse

SpecPath == InitPath /\ [][NextPath]_vars

(***************************************************************************)
(* C22: the reversed query                                                 *)
(***************************************************************************)
\* q is the filter of segment i extended, under the back link of its field,
\* with such a filter of segment i - 1, down to the root's own where
RECURSIVE FoldedTo(_, _, _)
FoldedTo(q, path, i) ==
    IF i = 1 THEN q = (IF path[1].where = Undef THEN Empty ELSE path[1].where)
    ELSE /\ q.t = "obj"
         /\ q.w = (IF path[i].where = Undef THEN Empty ELSE path[i].where)
         /\ q.rel = path[i].field.backLink
         /\ FoldedTo(q.sub, path, i - 1)

\* the rows reached along the first i segments: rows of the root model
\* matching the root where, then the rows related to them through each field
\* that match the where of their own level
RECURSIVE ReachedAlong(_, _, _, _)
ReachedAlong(root, path, i, db) ==
    IF i = 1 THEN {r \in db : r.model = root /\ Matches(r, path[1].where, db)}
    ELSE {r \in UNION {Related(p, path[i].field.name, db) :
                          p \in ReachedAlong(root, path, i - 1, db)} :
             Matches(r, path[i].where, db)}

InnerModel == ModelAt(st.rules.root, st.rules.fields, Len(st.path) - 1)

\* C22: buildReversedQuery folds the nesting path from the innermost segment
\* to the root, nesting each parent's filter under the back link of the field
\* below it; the result selects exactly the rows of the innermost model
\* reached from the rows matching the root filter along the path; the filters
\* of the nesting path are as they were.
C22_ReversedQuery ==
    st.phase = "reversed" =>
        /\ FoldedTo(st.guard, st.path, Len(st.path))
        /\ Find(InnerModel, st.guard, store)
              = ReachedAlong(st.rules.root, st.path, Len(st.path), store)
        /\ st.pathAfter = st.path

\* a path of three segments with a where at every level that selects some
\* but not all rows of the innermost model
C22_Witness ==
    /\ st.phase = "reversed" /\ Len(st.path) = 3
    /\ \A i \in DOMAIN st.path : st.path[i].where # Undef
    /\ Find(InnerModel, st.guard, store) # {}
    /\ Find(InnerModel, st.guard, store) # Find(InnerModel, Undef, store)
    /\ Find(InnerModel, st.guard, store) # Find(InnerModel, st.path[3].where, store)

(***************************************************************************)
(* C23: deleteMany                                                         *)
(***************************************************************************)
\* every operation of a payload beside the same element of the processed args
RECURSIVE WritePairs(_, _, _)
WritePairs(model, node, processed) ==
    UNION {{[model |-> model, op |-> node.op, n |-> Len(node.items),
             before |-> node.items[i], after |-> processed.items[i]]}
           \cup UNION {WritePairs(resolveField(model, node.items[i].kids[j].field).type,
                                  node.items[i].kids[j].node,
                                  processed.items[i].kids[j].node) :
                          j \in DOMAIN node.items[i].kids} :
           i \in DOMAIN node.items}

CallPairs(op) ==
    {p \in WritePairs(call.req.model, call.req.node, call.args) : p.op = op}

\* the rows as the call's write left them
Seen == IF call.phase = "postcheck" THEN call.txView ELSE store
RowsOf(model, db) == {r \in db : r.model = model}
Gone(model) == {r \in RowsOf(model, call.pre) : r.id \notin {x.id : x \in RowsOf(model, Seen)}}

\* the filter selects the rows that match both the caller's filter and the guard
Conjoined(p, operation) ==
    \A r \in RowsOf(p.model, call.pre) :
        Matches(r, p.after.where, call.pre)
            <=> (Matches(r, p.before.where, call.pre) /\ Sat(r, operation, call.pre))

\* C23: for a deleteMany on a model with a conditional delete guard, after
\* validation every element of its filter (the single one, or each of a list)
\* is the caller's element conjoined with the guard, and no row failing the
\* guard is deleted; with the guard true the filter is the caller's; with the
\* guard false the call is denied.
C23_DeleteManyGuarded ==
    call.kind = "write" =>
        \A p \in CallPairs("deleteMany") :
            LET entry == profile.guard[p.model]["delete"]
            IN /\ entry = BoolEntry(FALSE) =>
                     /\ call.phase = "done" /\ call.writes = 0 /\ store = call.pre
                     /\ call.outcome = "denied"
               /\ entry = BoolEntry(TRUE) => p.after.where = p.before.where
               /\ (entry.k = "fn" /\ TraversalPassed) =>
                     /\ Conjoined(p, "delete")
                     /\ \A r \in Gone(p.model) : Sat(r, "delete", call.pre)

\* a nested deleteMany with a list of two filters was executed under a
\* conditional guard: it deleted a row, and a row matching a caller's filter
\* but failing the guard is still there
C23_Witness ==
    /\ WriteDone /\ call.outcome = "ok" /\ call.writes = 1
    /\ \E p \in CallPairs("deleteMany") :
          /\ p.n = 2 /\ p.model # call.req.model
          /\ profile.guard[p.model]["delete"].k = "fn"
          /\ Gone(p.model) # {}
          /\ \E r \in RowsOf(p.model, store) :
                Matches(r, p.before.where, call.pre) /\ ~Sat(r, "delete", call.pre)

(***************************************************************************)
(* C24: updateMany                                                         *)
(***************************************************************************)
\* the rows of a model the call's write changed
Modified(model) ==
    {r \in RowsOf(model, call.pre) :
        \E x \in RowsOf(model, Seen) : x.id = r.id /\ x.v # r.v}

\* C24: for an updateMany on a model with a conditional update guard, after
\* validation its filter is the caller's filter conjoined with the guard, the
\* rows failing the guard are left as they were, and the guard does not fail
\* the call: a root updateMany always reaches its write, and is denied only
\* by a post-check.  With the guard false the call is denied before any write.
C24_UpdateManyGuarded ==
    call.kind = "write" =>
        \A p \in CallPairs("updateMany") :
            LET entry == profile.guard[p.model]["update"]
            IN /\ entry = BoolEntry(FALSE) =>
                     /\ call.phase = "done" /\ call.writes = 0 /\ store = call.pre
                     /\ call.outcome = "denied"
               /\ (entry.k = "fn" /\ TraversalPassed) =>
                     /\ Conjoined(p, "update")
                     /\ \A r \in Modified(p.model) : Sat(r, "update", call.pre)
               /\ (entry.k = "fn" /\ call.req.node.op = "updateMany"
                      /\ call.phase = "done") =>
                     /\ call.writes = 1
                     /\ call.outcome = "denied" => call.failedBy # NoCheck

\* an updateMany under a conditional guard succeeded: a row matching the
\* caller's filter but failing the guard does not have the value written
C24_Witness ==
    /\ WriteDone /\ call.outcome = "ok" /\ call.writes = 1
    /\ \E p \in CallPairs("updateMany") :
          /\ profile.guard[p.model]["update"].k = "fn"
          /\ \E r \in RowsOf(p.model, store) \cap call.pre :
                Matches(r, p.before.where, call.pre) /\ ~Sat(r, "update", call.pre)
                   /\ p.before.v # r.v

(***************************************************************************)
(* C25: pre-mutation snapshots                                             *)
(***************************************************************************)
\* every update, updateMany and upsert of a payload with the rows it reaches:
\* those matching its where among the candidates its parent leads to
RECURSIVE UpdateOps(_, _, _, _)
UpdateOps(model, node, candidates, db) ==
    UNION {LET targets == {r \in candidates : Matches(r, node.items[i].where, db)}
           IN (IF node.op \in {"update", "updateMany", "upsert"}
               THEN {[model |-> model, op |-> node.op, targets |-> targets]} ELSE {})
              \cup UNION {UpdateOps(resolveField(model, k.field).type, k.node,
                                    IF node.op = "update"
                                    THEN UNION {Related(p, k.field, db) : p \in targets}
                                    ELSE {}, db) : k \in Range(node.items[i].kids)} :
           i \in DOMAIN node.items}

CallUpdateOps ==
    UpdateOps(call.req.model, call.req.node, RowsOf(call.req.model, call.pre), call.pre)

PostGuarded(model) == profile.guard[model]["postUpdate"] # BoolEntry(TRUE)
Snapshotted == {o \in CallUpdateOps : PostGuarded(o.model)}

\* C25: once validation has passed, and from then on, the snapshots are the
\* rows, as they were before the write, that the visited update, updateMany
\* and upsert operations on models with a post-update guard other than true
\* reach, one per id; the recorded models are the models of these operations;
\* nothing is recorded for a model whose post-update guard is true; when
\* validation ends no write has been issued.
C25_PreMutationSnapshots ==
    (call.kind = "write" /\ TraversalPassed) =>
        /\ call.snaps = UNION {o.targets : o \in Snapshotted}
        /\ call.updModels = {o.model : o \in Snapshotted}
        /\ \A r \in call.snaps, x \in call.snaps :
              (r.model = x.model /\ r.id = x.id) => r = x
        /\ \A m \in Models : ~PostGuarded(m) =>
              (m \notin call.updModels /\ RowsOf(m, call.snaps) = {})
        /\ call.phase = "validated" => (call.writes = 0 /\ store = call.pre)

\* the write has been issued and changed a snapshotted row: the snapshot
\* holds the row as it was; an update on a model with a true post-update
\* guard was visited in the same call
C25_Witness ==
    /\ call.kind = "write" /\ call.phase = "postcheck"
    /\ \E r \in call.snaps : r \notin call.txView
    /\ \E o \in CallUpdateOps : ~PostGuarded(o.model) /\ o.targets # {}
    /\ \E o \in Snapshotted : o.op # "update"

(***************************************************************************)
(* C26: to-one relations inside the elements of a to-many relation         *)
(***************************************************************************)
\* the to-one related rows found in the elements of the to-many relations of
\* an entity of the result
ToOneInToMany(e) ==
    UNION {UNION {UNION {Range(x.rels[j].items) :
                            j \in {k \in DOMAIN x.rels :
                                      ~resolveField(x.model, x.rels[k].field).isArray}} :
                     x \in Range(e.rels[i].items)} :
              i \in {k \in DOMAIN e.rels : resolveField(e.model, e.rels[k].field).isArray}}

\* C26: in a successful read every to-one related row inside an element of a
\* to-many relation has passed the post-check of its model's read guard (a
\* read with such a row failing the guard ends with a policy denial).
C26_ToOneInsideToMany ==
    ReadOk =>
        \A e \in AllEntities(call.result) : \A x \in ToOneInToMany(e) :
            Sat(RowOf(x), "read", store)

(***************************************************************************)
(* visitPolicyExpression run on its own over update rule expressions       *)
(***************************************************************************)
SplitLeaves == {Cmp(fut, val) : fut \in BOOLEAN, val \in Vals}

InitSplit ==
    /\ store = {}
    /\ profile = [rules |-> RuleProfile(RAll, RAll, RAll),
                  guard |-> GuardTable(RuleProfile(RAll, RAll, RAll))]
    /\ call = IdleCall
    /\ \E leaf \in SplitLeaves : st = [IdleSt EXCEPT !.expr = leaf]

\* The expression of an update rule is written bottom up, with at most MaxOps
\* operators: st.n counts those written and the || or && still owed to an
\* operand set aside.
WriteExpr(e, saved, n) ==
    /\ st.phase = "idle"
    /\ n <= MaxOps
    /\ st' = [st EXCEPT !.expr = e, !.saved = saved, !.n = n]
    /\ UNCHANGED <<store, profile, call>>

\* !expr
Negate == WriteExpr(NotE(st.expr), st.saved, st.n + 1)

\* expr && leaf, leaf || expr, ...
Attach ==
    \E op \in {"and", "or"}, leaf \in SplitLeaves, left \in BOOLEAN :
        WriteExpr(IF left THEN [t |-> op, l |-> leaf, r |-> st.expr]
                ELSE [t |-> op, l |-> st.expr, r |-> leaf], st.saved, st.n + 1)

\* the expression, not a leaf, becomes the left operand of an operator whose
\* right operand is written next
SetAside ==
    /\ st.saved = NoExpr
    /\ st.expr.t # "cmp"
    /\ \E leaf \in SplitLeaves : WriteExpr(leaf, st.expr, st.n + 1)

\* saved && expr, saved || expr
Join ==
    /\ st.saved # NoExpr
    /\ st.expr.t # "cmp"
    /\ \E op \in {"and", "or"} :
          WriteExpr([t |-> op, l |-> st.saved, r |-> st.expr], NoExpr, st.n)

\* getPolicyExpressions for 'update', then for 'postUpdate', on one rule:
\* visitPolicyExpression(expr, false), then visitPolicyExpression(expr, true)
\* on the same expression object
SplitRule ==
    /\ st.phase = "idle"
    /\ st.saved = NoExpr
    /\ LET tree == Visited(st.expr, FALSE)
       IN st' = [st EXCEPT !.phase = "split",
                           !.before = visitPolicyExpression(st.expr, FALSE),
                           !.after = visitPolicyExpression(tree, TRUE),
                           !.exprAfter = Visited(tree, TRUE)]
    /\ UNCHANGED <<store, profile, call>>

NextSplit == Negate \/ Attach \/ SetAside \/ Join \/ SplitRule

SpecSplit == InitSplit /\ [][NextSplit]_vars

(***************************************************************************)
(* C27: the split keeps the operator structure                             *)
(***************************************************************************)
IsLeaf(e) == e.t \in {"cmp", "lit"}

\* the leaves of an expression, left to right
RECURSIVE LeavesOf(_)
LeavesOf(e) ==
    IF e = NoExpr THEN <<>>
    ELSE IF IsLeaf(e) THEN <<e>>
    ELSE IF e.t = "not" THEN LeavesOf(e.e)
    ELSE LeavesOf(e.l) \o LeavesOf(e.r)

\* a leaf belongs to the post half when it refers to future(), to the before
\* half otherwise
InHalf(leaf, post) == (leaf.t = "cmp" /\ leaf.fut) = post
Survives(e, post) == \E i \in DOMAIN LeavesOf(e) : InHalf(LeavesOf(e)[i], post)

\* the half as the rule of the operators gives it
RECURSIVE Reduced(_, _)
Reduced(e, post) ==
    IF ~Survives(e, post) THEN NoExpr
    ELSE IF IsLeaf(e) THEN e
    ELSE IF e.t = "not" THEN [t |-> "not", e |-> Reduced(e.e, post)]
    ELSE IF Survives(e.l, post) /\ Survives(e.r, post)
    THEN [t |-> e.t, l |-> Reduced(e.l, post), r |-> Reduced(e.r, post)]
    ELSE IF Survives(e.l, post) THEN Reduced(e.l, post)
    ELSE Reduced(e.r, post)

\* C27: in each half an && or || both of whose operands survive is kept with
\* its operands reduced, one with a single surviving operand is replaced by
\* that operand, one with none is dropped; a ! is kept exactly when its
\* operand survives; the given tree is as it was.
C27_StructurePreserved ==
    st.phase = "split" =>
        /\ st.before = Reduced(st.expr, FALSE)
        /\ st.after = Reduced(st.expr, TRUE)
        /\ st.exprAfter = st.expr

\* a ! over an || with leaves of both halves on one side and a leaf of one
\* half on the other: an operator kept, one replaced by its operand
C27_Witness ==
    /\ st.phase = "split"
    /\ st.expr.t = "not" /\ st.expr.e.t = "or" /\ st.expr.e.l.t = "and"
    /\ Survives(st.expr.e.l.l, FALSE) /\ Survives(st.expr.e.l.r, TRUE)
    /\ IsLeaf(st.expr.e.r) /\ Survives(st.expr.e.r, TRUE)
    /\ st.before = NotE(st.expr.e.l.l)
    /\ st.after = NotE(OrE(st.expr.e.l.r, st.expr.e.r))

(***************************************************************************)
(* C28: each leaf in exactly one half                                      *)
(***************************************************************************)
\* the leaves of a sequence that belong to a half, in their order
HalfLeaves(leaves, post) == SelectSeq(leaves, LAMBDA x : InHalf(x, post))

\* C28: the leaves of the before half are the leaves of the rule without a
\* future() reference, those of the post half are its leaves with one, each
\* as often and in the order it occurs in the rule: every leaf is in exactly
\* one half and the halves are never both empty.  A rule without a future()
\* reference is its own before half and has no post half; a rule all of
\* whose leaves refer to future() is its own post half and has no before
\* half.
C28_LeafPartition ==
    st.phase = "split" =>
        /\ LeavesOf(st.before) = HalfLeaves(LeavesOf(st.expr), FALSE)
        /\ LeavesOf(st.after) = HalfLeaves(LeavesOf(st.expr), TRUE)
        /\ Len(LeavesOf(st.before)) + Len(LeavesOf(st.after)) = Len(LeavesOf(st.expr))
        /\ ~(st.before = NoExpr /\ st.after = NoExpr)
        /\ (\A i \in DOMAIN LeavesOf(st.expr) : ~LeavesOf(st.expr)[i].fut) =>
              (st.before = st.expr /\ st.after = NoExpr)
        /\ (\A i \in DOMAIN LeavesOf(st.expr) : LeavesOf(st.expr)[i].fut) =>
              (st.after = st.expr /\ st.before = NoExpr)

\* a rule with the same pair of leaves twice, one of each half: both halves
\* hold their leaf twice
C28_Witness ==
    /\ st.phase = "split"
    /\ Len(LeavesOf(st.expr)) = 4
    /\ LeavesOf(st.expr)[1] = LeavesOf(st.expr)[3]
    /\ LeavesOf(st.expr)[2] = LeavesOf(st.expr)[4]
    /\ Len(LeavesOf(st.before)) = 2 /\ Len(LeavesOf(st.after)) = 2

\* a rule without a future() reference, with operators
C28_WitnessPreOnly ==
    /\ st.phase = "split" /\ st.n = MaxOps
    /\ HalfLeaves(LeavesOf(st.expr), TRUE) = <<>>
    /\ st.before = st.expr /\ st.after = NoExpr

(***************************************************************************)
(* C29: the halves against the rule                                        *)
(***************************************************************************)
\* the value of a rule expression for a row with value pre before the update
\* and value post after it; a missing half constrains nothing
RECURSIVE Eval(_, _, _)
Eval(e, pre, post) ==
    CASE e = NoExpr -> TRUE
      [] e.t = "lit" -> e.b
      [] e.t = "cmp" -> (IF e.fut THEN post ELSE pre) = e.val
      [] e.t = "not" -> ~Eval(e.e, pre, post)
      [] e.t = "and" -> Eval(e.l, pre, post) /\ Eval(e.r, pre, post)
      [] OTHER -> Eval(e.l, pre, post) \/ Eval(e.r, pre, post)

\* C29: for every update allow expression and every pair of row states, if
\* the before half holds on the state before the update and the post half on
\* the state after it, the expression holds for the pair.
C29_SplitRefines ==
    st.phase = "split" =>
        \A pre \in Vals, post \in Vals :
            (Eval(st.before, pre, pre) /\ Eval(st.after, post, post))
                => Eval(st.expr, pre, post)

\* the same for the rules that are conjunctions of leaves or of their
\* negations: there the halves together say what the rule says
RECURSIVE IsConjunctive(_)
IsConjunctive(e) ==
    \/ IsLeaf(e)
    \/ e.t = "not" /\ IsLeaf(e.e)
    \/ e.t = "and" /\ IsConjunctive(e.l) /\ IsConjunctive(e.r)

C29_ConjunctiveRefines ==
    (st.phase = "split" /\ IsConjunctive(st.expr)) =>
        \A pre \in Vals, post \in Vals :
            (Eval(st.before, pre, pre) /\ Eval(st.after, post, post))
                <=> Eval(st.expr, pre, post)

(***************************************************************************)
(* C30: update deny rules over the state before the update                 *)
(***************************************************************************)
\* the deny rules for update that are not constant and speak of the row
\* before the update only
PreUpdateDenies ==
    {r \in Range(st.rules) : /\ r.kind = "deny" /\ r.ops # <<>>
                             /\ {"update", "all"} \cap Range(r.ops) # {}
                             /\ r.expr.t # "lit"
                             /\ ~HasLeaf(r.expr, TRUE)}

\* the update entry of the guard table rejects the row
UpdateRejects(row) ==
    LET entry == st.table["update"]
    IN IF entry.k = "bool" THEN ~entry.b
       ELSE ~Matches(row, generateQueryGuardFunction(entry.kind, entry.allows,
                                                     entry.denies, NoPreValue), {})

\* C30: a row on which a non-constant update deny rule over the state before
\* the update holds is rejected by the generated update guard, whatever the
\* update allow rules are.
C30_PreDenyEnforced ==
    Generated =>
        \A d \in PreUpdateDenies : \A row \in ProbeRows :
            Holds(d.expr, row) => UpdateRejects(row)

\* 'all' is one of several operations a rule lists
ListsAll(r) == Len(r.ops) > 1 /\ "all" \in Range(r.ops)

\* the same where some update allow rule speaks of the state before the
\* update and no deny lists 'all' among other operations: there the deny is
\* part of the generated guard
C30_PreDenyWithPreAllow ==
    (Generated /\ ~NoPreSideAllow /\ \A d \in PreUpdateDenies : ~ListsAll(d)) =>
        \A d \in PreUpdateDenies : \A row \in ProbeRows :
            Holds(d.expr, row) => UpdateRejects(row)

\* every update allow speaks of future() only: the update entry is constant
\* true, and the post-update guard does not hold the deny either
C30_DenyDropped ==
    /\ Generated
    /\ st.rules = <<Rule("allow", <<"update">>, Cmp(TRUE, 1)),
                    Rule("deny", <<"update">>, Cmp(FALSE, 1))>>
    /\ st.table["update"] = BoolEntry(TRUE)
    /\ st.table["postUpdate"].k = "fn" /\ st.table["postUpdate"].denies = <<>>

(***************************************************************************)
(* C31: single updates and deletes beside other writers                    *)
(***************************************************************************)
\* the payload of the call holds single updates and deletes only
SinglesOnly ==
    \A o \in OpsIn(call.req.model, call.req.node) : o.op \in {"update", "delete"}

\* the rows as the write of this step leaves them
SeenNext == IF call'.phase = "postcheck" THEN call'.txView ELSE store'

\* the rows of the store this step's write changes or removes
Touched == {r \in store : ~\E x \in SeenNext : x.model = r.model /\ x.id = r.id /\ x.v = r.v}

\* C31: whatever other clients wrote since validation, the write of a call
\* made of single updates and deletes changes or removes only rows that, in
\* the store the write executes on, satisfy the conditional update or delete
\* guard of their model.
C31_GuardAtWriteTime ==
    [][(call.phase = "validated" /\ call'.phase # "validated" /\ SinglesOnly) =>
          \A r \in Touched :
              \A o \in OpsIn(call.req.model, call.req.node) :
                  (o.model = r.model
                     /\ profile.guard[r.model][SingleGuard(o.op)].k = "fn")
                      => Sat(r, SingleGuard(o.op), store)]_vars

(***************************************************************************)
(* C32: the create post-check beside the creates of other calls            *)
(***************************************************************************)
\* the rows the call's write created under a conditional create guard
OwnCreated == {r \in call.txView \ call.txBase : r.tx = TxTag}
OthersCreated(db) == {r \in db : r.tx = OtherTag}
FailsCreate(r, db) == ~Sat(r, "create", db)

\* C32: the markers of two calls differ, and the create post-check of a call
\* is decided by the rows carrying the call's own marker: the call fails on
\* a create check exactly when one of the rows it created fails the create
\* guard, whatever rows other calls created before or during the call.
C32_OwnMarkerOnly ==
    [][(call.phase = "postcheck" /\ call'.phase = "done") =>
          /\ TxTag # OtherTag
          /\ \A r \in OwnCreated : r.model \in call.created
          /\ (call'.outcome = "denied" /\ call'.failedBy.id = 0) <=>
                \E r \in OwnCreated : FailsCreate(r, call.txView)
          /\ call'.outcome = "ok" => \A r \in OwnCreated : ~FailsCreate(r, call.txView)]_vars

\* the call committed its creates although the transaction saw a row of
\* another call that fails the create guard
C32_Witness ==
    /\ WriteDone /\ call.outcome = "ok" /\ call.txn /\ call.created # {}
    /\ OwnCreated # {}
    /\ \E r \in OthersCreated(call.txView) : FailsCreate(r, call.txView)

\* the call was denied for its own row beside a passing row of another call
C32_WitnessDenied ==
    /\ WriteDone /\ call.outcome = "denied" /\ call.failedBy.id = 0
    /\ \E r \in OwnCreated : FailsCreate(r, call.txView)
    /\ OthersCreated(store) # {}
    /\ \A r \in OthersCreated(store) : ~FailsCreate(r, store)

(***************************************************************************)
(* C33: the count comparison beside other writers                          *)
(***************************************************************************)
\* C33: a count comparison during which every row matching the filter
\* satisfied the guard at every moment does not end with a policy denial,
\* whatever rows other clients insert or delete between the two counts.
C33_NoSpuriousDenial ==
    (call.kind = "check" /\ call.phase = "done" /\ call.clean)
        => call.outcome # "denied"

\* the same without a write of another client between the two counts
C33_AloneNoSpuriousDenial ==
    (call.kind = "check" /\ call.phase = "done" /\ call.clean /\ call.others = 0)
        => call.outcome # "denied"

\* an insert between the two counts does not deny
C33_InsertHarmless ==
    (call.kind = "check" /\ call.phase = "done" /\ call.clean
        /\ \A r \in call.pre : r \in store)
        => call.outcome # "denied"

(***************************************************************************)
(* C34: the to-one post-check of a root select without id                  *)
(***************************************************************************)
RootSelectsNoId ==
    GivenArgs(call.req).mode = "select" /\ ~GivenArgs(call.req).id

\* the to-one related rows of the root entities of the result
RootToOne ==
    UNION {UNION {Range(call.result[n].rels[i].items) :
                     i \in {k \in DOMAIN call.result[n].rels :
                               ~resolveField(call.result[n].model,
                                             call.result[n].rels[k].field).isArray}} :
              n \in DOMAIN call.result}

\* C34: a successful read whose top-level select omits id and projects a
\* to-one relation returns no related row that fails the read guard of its
\* model (such a read ends with a policy denial).
C34_SelectWithoutId ==
    (ReadOk /\ RootSelectsNoId) => \A x \in RootToOne : Sat(RowOf(x), "read", store)

\* the same for the reads that select id, or select nothing, at the root
C34_SelectWithId ==
    (ReadOk /\ ~RootSelectsNoId) => \A x \in RootToOne : Sat(RowOf(x), "read", store)

(***************************************************************************)
(* C35: the caller's filter of a projected to-many relation                *)
(***************************************************************************)
\* the relation has a where of the caller
NestedWhere(n, i) ==
    /\ resolveField(call.req.model, GivenArgs(call.req).rels[i].field).isArray
    /\ GivenArgs(call.req).rels[i].sub.where # Undef

\* C35: for a to-many relation projected with a where of the caller, the
\* related rows returned under each root entity are exactly the related rows
\* that satisfy the caller's where and the read guard of the related model.
C35_NestedWhereKept ==
    ReadOk =>
        \A n \in DOMAIN call.result : \A i \in DOMAIN call.result[n].rels :
            NestedWhere(n, i) =>
                {x.rid : x \in Range(call.result[n].rels[i].items)}
                    = {r.id : r \in {y \in Related(RowOf(call.result[n]),
                                                  call.result[n].rels[i].field, store) :
                                        /\ Matches(y, GivenArgs(call.req).rels[i].sub.where,
                                                   store)
                                        /\ Sat(y, "read", store)}}

\* what the read returns instead: the related rows satisfying the read guard
C35_GuardOnly ==
    ReadOk =>
        \A n \in DOMAIN call.result : \A i \in DOMAIN call.result[n].rels :
            NestedWhere(n, i) =>
                {x.rid : x \in Range(call.result[n].rels[i].items)}
                    = {r.id : r \in {y \in Related(RowOf(call.result[n]),
                                                  call.result[n].rels[i].field, store) :
                                        Sat(y, "read", store)}}

(***************************************************************************)
(* C36: a nesting path without a back link                                 *)
(***************************************************************************)
\* the nested operations of the payload reached through a relation field
\* whose metadata has no backLink, with the model they target
NoBackLinkOps ==
    UNION {{[model |-> resolveField(call.req.model, k.field).type, op |-> k.node.op] :
               k \in {x \in Range(call.req.node.items[i].kids) :
                         resolveField(call.req.model, x.field).backLink = ""}} :
           i \in DOMAIN call.req.node.items}

\* the root operation of the payload passes its own check
RootPasses ==
    \A o \in CallSingleOps : o.model = call.req.model => ~FailsSingleGuard(o)

\* the callback of the nested update builds the reversed query: for the
\* count comparison under a conditional update guard, or for the snapshot
\* under a post-update guard other than true
BuildsReversed(o) ==
    /\ o.op = "update"
    /\ profile.guard[call.req.model]["update"] # BoolEntry(FALSE)
    /\ RootPasses
    /\ \/ profile.guard[o.model]["update"].k = "fn"
       \/ profile.guard[o.model]["update"] = BoolEntry(TRUE) /\ PostGuarded(o.model)

\* C36: a call whose traversal builds the reversed query over a path with a
\* segment whose lower field has no back link ends with the unknown error,
\* not with a policy denial, without any write or transaction, the store
\* unchanged; and a call ends with the unknown error only so.
C36_MalformedPath ==
    call.kind = "write" =>
        /\ (\E o \in NoBackLinkOps : BuildsReversed(o)) =>
              /\ call.phase = "done" /\ call.outcome = "unknown"
              /\ call.writes = 0 /\ ~call.txn /\ store = call.pre
        /\ call.outcome = "unknown" =>
              /\ call.phase = "done" /\ call.writes = 0 /\ store = call.pre
              /\ \E o \in NoBackLinkOps : BuildsReversed(o)

C36_Witness ==
    /\ WriteDone /\ call.outcome = "unknown" /\ call.writes = 0
    /\ \E o \in NoBackLinkOps :
          BuildsReversed(o) /\ profile.guard[o.model]["update"].k = "fn"
    /\ call.ops > 0

(***************************************************************************)
(* C37: the caller identity of a generated guard function                  *)
(***************************************************************************)
UNKNOWN_USER_ID == "zenstack_unknown_user"

\* owner == auth(): a rule leaf that refers to the caller identity
AuthRef == [t |-> "auth"]

\* context.user: undefined, or an object with or without an id; an empty
\* id is falsy like a missing one
UserNames == {"ann"}
UserIds == {"", ToString(UserId), "u9"}
ContextUsers ==
    {Undef} \cup {[name |-> n] : n \in UserNames}
            \cup {[id |-> i] : i \in UserIds}
            \cup {[id |-> i, name |-> n] : i \in UserIds, n \in UserNames}

\* context.user?.id is truthy
HasId(u) == u # Undef /\ "id" \in DOMAIN u /\ u.id # ""

\* a mutant of guardUser: context.user is used as it is
guardUser_asIs(context) == context.user

\* const user = context.user?.id ? context.user
\*                               : { ...context.user, id: UNKNOWN_USER_ID }
guardUser(context) ==
    IF HasId(context.user) THEN context.user
    ELSE IF context.user = Undef THEN [id |-> UNKNOWN_USER_ID]
    ELSE [k \in DOMAIN context.user \cup {"id"} |->
             IF k = "id" THEN UNKNOWN_USER_ID ELSE context.user[k]]

\* user.id as the generated expression reads it
IdOf(u) == IF u = Undef THEN "<TypeError>"
           ELSE IF "id" \in DOMAIN u THEN u.id ELSE "<undefined>"

RECURSIVE HasAuth(_)
HasAuth(expr) ==
    CASE expr.t = "auth" -> TRUE
      [] expr.t \in {"lit", "cmp", "owner"} -> FALSE
      [] expr.t = "not" -> HasAuth(expr.e)
      [] OTHER -> HasAuth(expr.l) \/ HasAuth(expr.r)

\* any allow or deny rule contains an auth() invocation
hasAuthRef(allows, denies) ==
    \/ \E i \in DOMAIN denies : HasAuth(denies[i])
    \/ \E i \in DOMAIN allows : HasAuth(allows[i])

\* the auth() references of an expression read the function's user constant
RECURSIVE WithUser(_, _)
WithUser(expr, u) ==
    CASE expr.t = "auth" -> [t |-> "owner", id |-> IdOf(u)]
      [] expr.t \in {"lit", "cmp", "owner"} -> expr
      [] expr.t = "not" -> NotE(WithUser(expr.e, u))
      [] expr.t = "and" -> AndE(WithUser(expr.l, u), WithUser(expr.r, u))
      [] expr.t = "or" -> OrE(WithUser(expr.l, u), WithUser(expr.r, u))

\* a call of the generated function Model_kind(context)
GuardFunction(kind, allows, denies, context) ==
    IF hasAuthRef(allows, denies)
    THEN LET u == guardUser(context)
         IN generateQueryGuardFunction(kind,
                [i \in DOMAIN allows |-> WithUser(allows[i], u)],
                [i \in DOMAIN denies |-> WithUser(denies[i], u)],
                context.preValue)
    ELSE generateQueryGuardFunction(kind, allows, denies, context.preValue)

AuthExprs == {Lit(TRUE), Cmp(FALSE, 1), AuthRef, NotE(AuthRef),
              AndE(AuthRef, Cmp(FALSE, 1))}
AuthExprSeqs == UNION {[1..n -> AuthExprs] : n \in 0..MaxRules}
AuthDenies == {<<>>, <<AuthRef>>, <<Cmp(FALSE, 0)>>}

InitAuth ==
    /\ store \in Stores
    /\ profile = [rules |-> RuleProfile(RAll, RAll, RAll),
                  guard |-> GuardTable(RuleProfile(RAll, RAll, RAll))]
    /\ call = [IdleCall EXCEPT !.pre = store]
    /\ \E allows \in AuthExprSeqs : \E denies \in AuthDenies :
       \E u \in ContextUsers : \E kind \in {"read", "update"} :
          st = [IdleSt EXCEPT !.allows = allows, !.denies = denies,
                              !.user = u, !.op = kind]

\* provider({ user: this.user, preValue })
CallGuard ==
    /\ st.phase = "idle"
    /\ st' = [st EXCEPT !.phase = "called",
                        !.guard = GuardFunction(st.op, st.allows, st.denies,
                                      [user |-> st.user, preValue |-> NoPreValue])]
    /\ UNCHANGED <<store, profile, call>>

\* the same function called again for the same user and previous value
CallGuardAgain ==
    /\ st.phase = "called"
    /\ st' = [st EXCEPT !.phase = "recalled",
                        !.again = GuardFunction(st.op, st.allows, st.denies,
                                      [user |-> st.user, preValue |-> NoPreValue])]
    /\ UNCHANGED <<store, profile, call>>

NextAuth == CallGuard \/ CallGuardAgain

SpecAuth == InitAuth /\ [][NextAuth]_vars

\* the ids the returned predicate compares the owner with
RECURSIVE OwnerIdsOf(_)
OwnerIdsOf(f) ==
    CASE f.t = "ownerIs" -> {f.id}
      [] f.t = "NOT" -> OwnerIdsOf(f.c)
      [] f.t \in {"AND", "OR"} -> UNION {OwnerIdsOf(f.cs[i]) : i \in DOMAIN f.cs}
      [] OTHER -> {}

\* C37: a generated guard function whose rules refer to auth() compares with
\* the sentinel id zenstack_unknown_user when the caller identity is absent
\* or has no (non-empty) id, and with the caller's own id, the identity left
\* as it is, when it has one; called again for the same user and previous
\* value it returns the same predicate, and the store is as it was.
C37_SentinelIdentity ==
    st.phase \in {"called", "recalled"} =>
        /\ hasAuthRef(st.allows, st.denies) =>
              /\ OwnerIdsOf(st.guard)
                    = {IF HasId(st.user) THEN st.user.id ELSE UNKNOWN_USER_ID}
              /\ HasId(st.user) =>
                    guardUser([user |-> st.user, preValue |-> NoPreValue]) = st.user
        /\ st.phase = "recalled" => st.again = st.guard
        /\ store = call.pre

\* an absent caller whose guard compares with the sentinel, called twice
C37_Witness ==
    /\ st.phase = "recalled" /\ st.user = Undef
    /\ hasAuthRef(st.allows, st.denies)
    /\ UNKNOWN_USER_ID \in OwnerIdsOf(st.guard)
    /\ store # {}

\* a caller with an id whose guard compares with that id
C37_WitnessOwnId ==
    /\ st.phase = "called" /\ HasId(st.user)
    /\ OwnerIdsOf(st.guard) = {st.user.id}
    /\ \E r \in store : Matches(r, st.guard, store)

(***************************************************************************)
(* C38: processWrite one store operation at a time                         *)
(***************************************************************************)
\* the course of a call on a store no other client writes: the call and
\* the store after the traversal, after the write action and after the
\* post-checks, as far as the call gets
Stage(c, db) == [c |-> c, db |-> db]
CourseSettled(v, w, db) ==
    {<<Stage(v, db), w, SettledOf(w.c, w.db, PostChecks(co, uo, TxState(w.db, w.c)))>> :
        co \in Orders(w.c.created), uo \in Orders(w.c.snaps)}
CourseWritten(v, w, db) ==
    IF w.c.phase = "done" THEN {<<Stage(v, db), w>>} ELSE CourseSettled(v, w, db)
CourseVisited(v, db) ==
    IF v.phase = "done" THEN {<<Stage(v, db)>>}
    ELSE CourseWritten(v, WrittenOf(v, db, v.created = {} /\ v.updModels = {},
                                    writeAction(v.req.model, v.args, db)), db)
Courses(req, db) == CourseVisited(AfterVisit(req, Visit(req.model, req.node, db)), db)

\* processWrite is called: visitor.visit runs its callbacks, each awaiting
\* its store operations one after the other
WriteBegin ==
    /\ call.phase = "idle"
    /\ \E req \in WriteRequests : \E course \in Courses(req, store) :
          call' = [call EXCEPT
                      !.phase = "validating", !.kind = "write",
                      !.req = req, !.pre = store,
                      !.left = course[1].c.ops, !.course = course]
    /\ UNCHANGED <<profile, store, st>>

\* a store operation of the traversal returns
StoreReturns ==
    /\ call.phase = "validating"
    /\ call.left > 0
    /\ call' = [call EXCEPT !.left = @ - 1]
    /\ UNCHANGED <<store, profile, st>>

\* the call moves on to the next stage of its course
Proceeds ==
    /\ call.course # <<>>
    /\ call' = [Head(call.course).c EXCEPT !.course = Tail(call.course)]
    /\ store' = Head(call.course).db
    /\ UNCHANGED <<profile, st>>

\* visitor.visit is over: the tree is validated, or the call has thrown
WriteVisited == call.phase = "validating" /\ call.left = 0 /\ Proceeds

\* the write action has returned, directly or in the transaction
WriteWritten == call.phase = "validated" /\ Proceeds

\* the post-checks have settled: the transaction commits or rolls back
WriteSettled == call.phase = "postcheck" /\ Proceeds

NextLive ==
    WriteBegin \/ StoreReturns \/ WriteVisited \/ WriteWritten \/ WriteSettled

\* every store operation returns, and the call runs on when it does
SpecLive ==
    /\ Init /\ [][NextLive]_vars
    /\ WF_vars(StoreReturns) /\ WF_vars(WriteVisited)
    /\ WF_vars(WriteWritten) /\ WF_vars(WriteSettled)

DeniedInValidation == call.outcome = "denied" /\ call.writes = 0
Committed == call.outcome = "ok" /\ call.writes = 1
RolledBackAfterPostCheck ==
    /\ call.outcome = "denied" /\ call.writes = 1 /\ call.txn
    /\ call.failedBy # NoCheck /\ store = call.pre
Running == call.kind = "write" /\ call.phase \in {"validating", "validated", "postcheck"}

C38_WitnessValidating ==
    /\ call.phase = "validating" /\ call.left > 0
    /\ call.left < Visit(call.req.model, call.req.node, store).acc.ops

(***************************************************************************)
(* C39, C40: PolicyUtil.and and PolicyUtil.or on their own                 *)
(***************************************************************************)
\* the conditions handed over: booleans, undefined, {} and field filters
Conditions ==
    {BoolC(TRUE), BoolC(FALSE), Undef, Empty, VEq(0), VEq(1), IdEq(1)}
ConditionSeqs(n) == UNION {[1..k -> Conditions] : k \in 0..n}

InitCombine ==
    /\ store \in {db \in Stores : \A r \in db : r.model = "Todo" \/ r.v = 0}
    /\ profile = [rules |-> RuleProfile(RAll, RAll, RAll),
                  guard |-> GuardTable(RuleProfile(RAll, RAll, RAll))]
    /\ call = IdleCall
    /\ \E cs \in ConditionSeqs(MaxConds) : st = [IdleSt EXCEPT !.conds = cs]

\* this.and(...conditions)
Conjoin ==
    /\ st.phase = "idle"
    /\ st' = [st EXCEPT !.phase = "and", !.guard = and(st.conds)]
    /\ UNCHANGED <<store, profile, call>>

\* this.or(...conditions)
Disjoin ==
    /\ st.phase = "idle"
    /\ st' = [st EXCEPT !.phase = "or", !.guard = or(st.conds)]
    /\ UNCHANGED <<store, profile, call>>

NextCombine == Conjoin \/ Disjoin

SpecCombine == InitCombine /\ [][NextCombine]_vars

\* the row satisfies the condition: true and undefined always, false never
Satisfies(row, c) ==
    IF c.t = "bool" THEN c.b ELSE Matches(row, c, store)
Todos == {r \in store : r.model = "Todo"}
ObjectConds == SelectSeq(st.conds, IsObject)

\* C39: and(c1..cn) matches exactly the rows that satisfy every ci, true and
\* undefined counting as satisfied; it is the match-nothing filter when a ci
\* is false, otherwise undefined when no object condition remains, the one
\* object condition when one remains, and AND of the object conditions in
\* their order when several remain.
C39_Conjunction ==
    st.phase = "and" =>
        /\ \A row \in Todos :
              Matches(row, st.guard, store)
                 <=> \A i \in DOMAIN st.conds : Satisfies(row, st.conds[i])
        /\ st.guard =
              IF \E i \in DOMAIN st.conds : st.conds[i] = BoolC(FALSE) THEN IdIn({})
              ELSE IF Len(ObjectConds) = 0 THEN Undef
              ELSE IF Len(ObjectConds) = 1 THEN ObjectConds[1]
              ELSE AndF(ObjectConds)

\* several object conditions among true and undefined ones, in an AND that
\* matches one todo and not the other
C39_Witness ==
    /\ st.phase = "and" /\ st.guard.t = "AND" /\ Len(st.guard.cs) > 1
    /\ Len(st.conds) > Len(st.guard.cs)
    /\ st.guard.cs[1] # st.guard.cs[2]
    /\ \E row \in Todos : Matches(row, st.guard, store)
    /\ \E row \in Todos : ~Matches(row, st.guard, store)

\* a false condition among object conditions: the match-nothing filter
C39_WitnessFalse ==
    /\ st.phase = "and" /\ st.guard = IdIn({})
    /\ Len(ObjectConds) > 0 /\ Todos # {}

\* C40: or(c1..cn) matches exactly the rows that satisfy at least one ci: every
\* row when a ci is true, no row when every ci is false.
C40_Disjunction ==
    (/\ st.phase = "or" /\ st.conds # <<>>
     /\ \A i \in DOMAIN st.conds : st.conds[i] # Undef) =>
        \A row \in Todos :
            Matches(row, st.guard, store)
               <=> \E i \in DOMAIN st.conds : Satisfies(row, st.conds[i])

\* with an object condition, or a true one, among the conditions or(c1..cn)
\* matches exactly the rows that satisfy at least one ci
C40_WithObjectOrTrue ==
    (/\ st.phase = "or"
     /\ \A i \in DOMAIN st.conds : st.conds[i] # Undef
     /\ \E i \in DOMAIN st.conds : st.conds[i] # BoolC(FALSE)) =>
        \A row \in Todos :
            Matches(row, st.guard, store)
               <=> \E i \in DOMAIN st.conds : Satisfies(row, st.conds[i])

\* or of false conditions only: undefined, which restricts nothing
C40_AllFalse ==
    /\ st.phase = "or" /\ Len(st.conds) > 1
    /\ \A i \in DOMAIN st.conds : st.conds[i] = BoolC(FALSE)
    /\ st.guard = Undef
    /\ \E row \in Todos : Matches(row, st.guard, store)


====
